---- MODULE Spec2Model ----
(***************************************************************************)
(* Coordinated path planning for emergency vehicles: the single-agent A*   *)
(* search, the prioritized planner, conflict-based search and the D* Lite  *)
(* replanner, each modelled from its source file.  One behaviour makes one *)
(* top-level call (mode) on one graph.                                     *)
(***************************************************************************)
EXTENDS Integers, Sequences, FiniteSets, TLC

VARIABLES
    mode,        \* which top-level call this behaviour makes
    pc,          \* position of that call: "run", "returned", "raised"
    G,           \* the nx.DiGraph: [edges, travel_time]
    pos,         \* node -> coordinate (lat/lon of G.nodes, on one line)
    start,       \* A*: start argument; D* Lite: self.start
    goal,        \* A*: goal argument;  D* Lite: self.goal
    open_heap,   \* A*: heap of (f, node); CBS: heap array of CBSTreeNode
    came_from,   \* A*: came_from dict
    g,           \* A*: g dict; D* Lite: self.g
    result,      \* what the call returned
    agents,      \* the list of Agent(name, start, goal)
    max_t,       \* the time horizon argument
    priority_order,  \* prioritized_plan: names in planning order
    pidx,        \* prioritized_plan: index of the next name of the for loop
    occupied_nodes,  \* prioritized_plan: node -> set of reserved times
    occupied_edges,  \* prioritized_plan: (u, v) -> set of reserved times
    paths,       \* prioritized_plan: name -> committed path
    LL_CACHE,    \* cbs: the module-level _LL_CACHE dict
    pops,        \* cbs_plan: number of heappop calls made so far
    ll_seen,     \* low_level_search calls made: (name, own constraints) -> first path
    ll_last,     \* the last low_level_search call: its arguments and its path
    km,          \* D* Lite: self.km
    rhs,         \* D* Lite: self.rhs
    queue,       \* D* Lite: self.queue, the entries ((k1, k2), node) of the heap
    path_nodes,  \* D* Lite: self.path_nodes
    calls,       \* D* Lite: the calls made on the object and the last of them
    ors_summary, \* build_route_for_vehicle: what extract_polyline_and_summary gave
    polylines,   \* build_abstract_graph_from_routes: its arguments
    vehicle_way_nodes  \* build_abstract_graph_from_routes: name -> waypoint node ids

vars == <<mode, pc, G, pos, start, goal, open_heap, came_from, g, result,
          agents, max_t, priority_order, pidx, occupied_nodes, occupied_edges,
          paths, LL_CACHE, pops, ll_seen, ll_last, km, rhs, queue, path_nodes,
          calls, ors_summary, polylines, vehicle_way_nodes>>

astarVars == <<start, goal, open_heap, came_from, g>>
astarVars2 == <<start, goal, came_from, g>>
ppVars == <<priority_order, pidx, occupied_nodes, occupied_edges, paths>>
buildVars == <<polylines, vehicle_way_nodes>>
cbsVars == <<LL_CACHE, pops, ll_seen, ll_last>>
dstarVars == <<km, rhs, queue, path_nodes, calls>>

-----------------------------------------------------------------------------
(* Bounds of the model *)

\* largest travel_time an edge is given before any blocking
MaxCost == 3
\* largest node coordinate; the heuristic between two nodes is their distance
MaxPos == 3
\* the time horizon max_t the planners are called with
MaxT == 3
\* longest constraint list handed to a direct low_level_search call
MaxConstraints == 2
\* cbs_plan is followed for at most this many pops of its open heap
MaxPops == 4
\* D* Lite: step is called at most this many times on one object
MaxSteps == 2
\* D* Lite: block_edge_and_replan is called at most this many times
MaxBlocks == 2
\* detect_first_conflict called on its own: longest path of the mapping
MaxPathLen == 2
\* build_route_for_vehicle: most points of a polyline
MaxPoints == 3
\* build_route_for_vehicle: largest total distance and total duration
MaxTotal == 5

-----------------------------------------------------------------------------
(* The graph *)

Nodes == {0, 1, 2, 3}

\* candidate edges, in the order G.add_edge inserts them
EdgeUniverse == << <<0, 1>>, <<1, 2>>, <<0, 3>>, <<3, 2>>, <<0, 2>>, <<1, 0>>, <<3, 1>> >>

\* float("inf")
Infinity == -1

EdgeListOf(S) ==
    LET F[i \in 0..Len(EdgeUniverse)] ==
            IF i = 0 THEN <<>>
            ELSE IF i \in S THEN Append(F[i - 1], EdgeUniverse[i])
                 ELSE F[i - 1]
    IN  F[Len(EdgeUniverse)]

EdgeSet(Gr) == {Gr.edges[i] : i \in 1..Len(Gr.edges)}

has_edge(Gr, u, v) == <<u, v>> \in EdgeSet(Gr)

\* G.successors(u): targets of u's edges in insertion order
successors(Gr, u) ==
    LET F[i \in 0..Len(Gr.edges)] ==
            IF i = 0 THEN <<>>
            ELSE IF Gr.edges[i][1] = u THEN Append(F[i - 1], Gr.edges[i][2])
                 ELSE F[i - 1]
    IN  F[Len(Gr.edges)]

\* the nodes v's edges lead to, taken for the nodes that lead to v
predecessors_downstream(Gr, v) == successors(Gr, v)

\* G.predecessors(v): sources of v's edges in insertion order
predecessors(Gr, v) ==
    LET F[i \in 0..Len(Gr.edges)] ==
            IF i = 0 THEN <<>>
            ELSE IF Gr.edges[i][2] = v THEN Append(F[i - 1], Gr.edges[i][1])
                 ELSE F[i - 1]
    IN  F[Len(Gr.edges)]

Abs(x) == IF x < 0 THEN -x ELSE x

\* the straight-line time estimate between two nodes
time_heuristic(u, v) == Abs(pos[u] - pos[v])

\* the graphs over the candidate edges numbered by idxs, costs drawn from costs
Graphs(idxs, costs) ==
    UNION { { [edges |-> EdgeListOf(S), travel_time |-> tt] :
                tt \in [{EdgeUniverse[i] : i \in S} -> costs] } :
            S \in SUBSET idxs }

-----------------------------------------------------------------------------
(* astar_planner.py *)

\* tuples compare lexicographically, as Python compares heap entries
TupleLess(a, b) == a[1] < b[1] \/ (a[1] = b[1] /\ a[2] < b[2])

\* the entry heapq.heappop returns: the least (f, node)
HeapMin(h) == CHOOSE x \in h : \A y \in h : x = y \/ TupleLess(x, y)

\* path = [current]; while current in came_from: ...; path.reverse()
RECURSIVE ReconstructPath(_, _)
ReconstructPath(cf, n) ==
    IF n \in DOMAIN cf THEN Append(ReconstructPath(cf, cf[n]), n) ELSE <<n>>

\* a relaxation that keeps the first cost found for a node
ImprovesFirstOnly(tentative, gd, nbr) == nbr \notin DOMAIN gd

\* a relaxation that only lowers a g value already recorded
ImprovesKnownOnly(tentative, gd, nbr) == nbr \in DOMAIN gd /\ tentative < gd[nbr]

\* tentative < g.get(nbr, float("inf"))
Improves(tentative, gd, nbr) == nbr \notin DOMAIN gd \/ tentative < gd[nbr]

\* the for loop over G.successors(current)
Relax(current, rest) ==
    LET nbrs == successors(G, current)
        R[i \in 0..Len(nbrs)] ==
            IF i = 0 THEN [g |-> g, came_from |-> came_from, open_heap |-> rest]
            ELSE LET p == R[i - 1]
                     nbr == nbrs[i]
                     cost == G.travel_time[<<current, nbr>>]
                     tentative == p.g[current] + cost
                 IN  IF Improves(tentative, p.g, nbr)
                     THEN [g |-> (nbr :> tentative) @@ p.g,
                           came_from |-> (nbr :> current) @@ p.came_from,
                           open_heap |-> p.open_heap \cup
                               {<<tentative + time_heuristic(nbr, goal), nbr>>}]
                     ELSE p
    IN  R[Len(nbrs)]

InitAStar ==
    /\ mode = "astar"
    /\ pc = "run"
    /\ G \in Graphs(1..5, {1, MaxCost})
    /\ pos \in [Nodes -> {0, MaxPos}]
    /\ start \in Nodes
    /\ goal \in Nodes
    /\ open_heap = {<<0, start>>}
    /\ came_from = <<>>
    /\ g = (start :> 0)
    /\ result = [path |-> <<>>, cost |-> 0]
    /\ agents = <<>>
    /\ max_t = 0
    /\ priority_order = <<>>
    /\ pidx = 0
    /\ occupied_nodes = <<>>
    /\ occupied_edges = <<>>
    /\ paths = <<>>
    /\ LL_CACHE = <<>>
    /\ pops = 0
    /\ ll_seen = <<>>
    /\ ll_last = <<>>
    /\ km = 0
    /\ rhs = <<>>
    /\ queue = {}
    /\ path_nodes = <<>>
    /\ calls = <<>>
    /\ ors_summary = <<>>
    /\ polylines = <<>>
    /\ vehicle_way_nodes = <<>>

\* one iteration of the while loop of astar_shortest_path, or its final return
AStarStep ==
    /\ mode = "astar"
    /\ pc = "run"
    /\ IF open_heap = {}
       THEN /\ result' = [path |-> <<>>, cost |-> Infinity]
            /\ pc' = "returned"
            /\ UNCHANGED <<open_heap, came_from, g>>
       ELSE LET top == HeapMin(open_heap)
                current == top[2]
                rest == open_heap \ {top}
            IN  IF current = goal
                THEN /\ result' = [path |-> ReconstructPath(came_from, current),
                                   cost |-> g[goal]]
                     /\ pc' = "returned"
                     /\ open_heap' = rest
                     /\ UNCHANGED <<came_from, g>>
                ELSE LET r == Relax(current, rest)
                     IN  /\ open_heap' = r.open_heap
                         /\ came_from' = r.came_from
                         /\ g' = r.g
                         /\ UNCHANGED <<pc, result>>
    /\ UNCHANGED <<mode, G, pos, start, goal, agents, max_t>>
    /\ UNCHANGED ppVars
    /\ UNCHANGED cbsVars
    /\ UNCHANGED dstarVars
    /\ UNCHANGED <<ors_summary, polylines, vehicle_way_nodes>>

SpecAStar == InitAStar /\ [][AStarStep]_vars

(* A* against an independent full search *)

Min2(a, b) == IF a = Infinity THEN b ELSE IF b = Infinity THEN a
              ELSE IF a < b THEN a ELSE b

Plus(a, b) == IF a = Infinity \/ b = Infinity THEN Infinity ELSE a + b

\* least total travel_time of a walk of at most k edges from n to t (Bellman-Ford)
RECURSIVE DistWithin(_, _, _, _)
DistWithin(Gr, k, n, t) ==
    IF n = t THEN 0
    ELSE IF k = 0 THEN Infinity
    ELSE LET out == {e \in EdgeSet(Gr) : e[1] = n}
             F[S \in SUBSET out] ==
                 IF S = {} THEN Infinity
                 ELSE LET e == CHOOSE x \in S : TRUE
                      IN  Min2(Plus(Gr.travel_time[e], DistWithin(Gr, k - 1, e[2], t)),
                               F[S \ {e}])
         IN  F[out]

ShortestCost(Gr, s, t) == DistWithin(Gr, Cardinality(Nodes) - 1, s, t)

Reachable(Gr, s, t) == ShortestCost(Gr, s, t) # Infinity

\* total travel_time along a node path
PathCost(Gr, p) ==
    LET F[i \in 1..Len(p)] ==
            IF i = 1 THEN 0 ELSE F[i - 1] + Gr.travel_time[<<p[i - 1], p[i]>>]
    IN  IF p = <<>> THEN Infinity ELSE F[Len(p)]

\* the heuristic never exceeds the true remaining cost
Admissible ==
    \A n \in Nodes :
        Reachable(G, n, goal) => time_heuristic(n, goal) <= ShortestCost(G, n, goal)

AStarReturned == mode = "astar" /\ pc = "returned"

\* C5 as stated: with a reachable goal A* returns a least-cost path and its cost,
\* whatever values the heuristic takes.
C5_OptimalForAnyHeuristic ==
    (AStarReturned /\ Reachable(G, start, goal)) =>
        /\ result.cost = ShortestCost(G, start, goal)
        /\ PathCost(G, result.path) = ShortestCost(G, start, goal)

\* C5 amended: with a reachable goal and an admissible heuristic A* returns a
\* least-cost path and its cost.
C5_OptimalWhenAdmissible ==
    (AStarReturned /\ Reachable(G, start, goal) /\ Admissible) =>
        /\ result.cost = ShortestCost(G, start, goal)
        /\ PathCost(G, result.path) = ShortestCost(G, start, goal)

\* A* returned the cheaper of two two-hop routes, through a node whose
\* heuristic is positive, under an admissible heuristic.
C5_Witness ==
    /\ AStarReturned
    /\ Admissible
    /\ Len(result.path) = 3
    /\ time_heuristic(result.path[2], goal) > 0
    /\ \E m \in Nodes \ {result.path[2]} :
          /\ has_edge(G, start, m)
          /\ has_edge(G, m, goal)
          /\ G.travel_time[<<start, m>>] + G.travel_time[<<m, goal>>] > result.cost

-----------------------------------------------------------------------------
(* prioritized_planner.py *)

AgentNames == <<"a", "b", "c">>

Agent(i, s, t) == [name |-> AgentNames[i], start |-> s, goal |-> t]

\* agents_by_name[name]
AgentByName(name) ==
    agents[CHOOSE i \in 1..Len(agents) :
             /\ agents[i].name = name
             /\ \A j \in (i + 1)..Len(agents) : agents[j].name # name]

\* Python's order on tuples of numbers of equal length
RECURSIVE LexLess(_, _)
LexLess(a, b) ==
    IF a = <<>> THEN FALSE
    ELSE Head(a) < Head(b) \/ (Head(a) = Head(b) /\ LexLess(Tail(a), Tail(b)))

LexMin(h) == CHOOSE x \in h : \A y \in h : x = y \/ LexLess(x, y)

\* the parent of the start state
None == <<-1, -1>>

\* the states walked back from the goal, left in that order
RECURSIVE StatesPathUnreversed(_, _)
StatesPathUnreversed(cf, s) ==
    IF s = None THEN <<>> ELSE <<s[1]>> \o StatesPathUnreversed(cf, cf[s])

\* path_states, reversed, projected on the nodes
RECURSIVE StatesPath(_, _)
StatesPath(cf, s) ==
    IF s = None THEN <<>> ELSE Append(StatesPath(cf, cf[s]), s[1])

\* a test that also refuses to cross an agent that comes the other way
is_blocked_with_swaps(occN, occE, next_node, cur_node, next_t) ==
    \/ (next_node \in DOMAIN occN /\ next_t \in occN[next_node])
    \/ (/\ <<cur_node, next_node>> \in DOMAIN occE
        /\ next_t \in occE[<<cur_node, next_node>>])
    \/ (/\ <<next_node, cur_node>> \in DOMAIN occE
        /\ next_t \in occE[<<next_node, cur_node>>])

is_blocked(occN, occE, next_node, cur_node, next_t) ==
    \/ (next_node \in DOMAIN occN /\ next_t \in occN[next_node])
    \/ (/\ <<cur_node, next_node>> \in DOMAIN occE
        /\ next_t \in occE[<<cur_node, next_node>>])

\* the while loop of time_expanded_astar
RECURSIVE TeaLoop(_, _, _, _, _, _, _)
TeaLoop(Gr, agent, occN, occE, heap, cf, gc) ==
    IF heap = {} THEN <<>>
    ELSE LET top == LexMin(heap)
             gg == top[2]
             node == top[3]
             t == top[4]
             rest == heap \ {top}
         IN  IF t > max_t THEN TeaLoop(Gr, agent, occN, occE, rest, cf, gc)
             ELSE IF node = agent.goal THEN StatesPath(cf, <<node, t>>)
             ELSE LET next_t == t + 1
                      cand == <<node>> \o successors(Gr, node)
                      R[i \in 0..Len(cand)] ==
                          IF i = 0 THEN [heap |-> rest, cf |-> cf, gc |-> gc]
                          ELSE LET q == R[i - 1]
                                   next_node == cand[i]
                                   state == <<next_node, next_t>>
                                   new_g == gg + 1
                               IN  IF is_blocked(occN, occE, next_node, node, next_t)
                                   THEN q
                                   ELSE IF state \notin DOMAIN q.gc \/ new_g < q.gc[state]
                                   THEN [heap |-> q.heap \cup
                                                  {<<new_g, new_g, next_node, next_t>>},
                                         cf |-> (state :> <<node, t>>) @@ q.cf,
                                         gc |-> (state :> new_g) @@ q.gc]
                                   ELSE q
                      r == R[Len(cand)]
                  IN  TeaLoop(Gr, agent, occN, occE, r.heap, r.cf, r.gc)

time_expanded_astar(Gr, agent, occN, occE) ==
    LET start_state == <<agent.start, 0>>
    IN  TeaLoop(Gr, agent, occN, occE, {<<0, 0, agent.start, 0>>},
                (start_state :> None), (start_state :> 0))

\* a reservation table that holds the newest path only
ReserveNodesAfresh(occN, path) ==
    [node \in {path[i] : i \in 1..Len(path)} |->
        {i - 1 : i \in {j \in 1..Len(path) : path[j] = node}}]

\* occupied_nodes.setdefault(node, set()).add(t) along the path
ReserveNodes(occN, path) ==
    LET F[i \in 0..Len(path)] ==
            IF i = 0 THEN occN
            ELSE LET node == path[i]
                     old == IF node \in DOMAIN F[i - 1] THEN F[i - 1][node] ELSE {}
                 IN  (node :> (old \cup {i - 1})) @@ F[i - 1]
    IN  F[Len(path)]

\* occupied_edges.setdefault((u, v), set()).add(t) along the path
ReserveEdges(occE, path) ==
    LET F[i \in 1..Len(path)] ==
            IF i = 1 THEN occE
            ELSE LET e == <<path[i - 1], path[i]>>
                     old == IF e \in DOMAIN F[i - 1] THEN F[i - 1][e] ELSE {}
                 IN  (e :> (old \cup {i - 1})) @@ F[i - 1]
    IN  IF path = <<>> THEN occE ELSE F[Len(path)]

\* two agents with any start and goal, or three that share the goal node 2
AgentLists ==
    { <<Agent(1, s1, g1), Agent(2, s2, g2)>> :
        s1 \in Nodes, g1 \in Nodes, s2 \in Nodes, g2 \in Nodes }
    \cup
    { <<Agent(1, s1, 2), Agent(2, s2, 2), Agent(3, s3, 2)>> :
        s1 \in Nodes, s2 \in Nodes, s3 \in Nodes }

Reverse(sq) == [i \in 1..Len(sq) |-> sq[Len(sq) + 1 - i]]

InitPP ==
    /\ mode = "pp"
    /\ pc = "run"
    /\ G \in Graphs({1, 2, 3, 4, 6, 7}, {1})
    /\ pos = [n \in Nodes |-> 0]
    /\ agents \in AgentLists
    /\ max_t = MaxT
    /\ \E order \in {[i \in 1..Len(agents) |-> agents[i].name]} :
          priority_order \in {order, Reverse(order)}
    /\ pidx = 1
    /\ occupied_nodes = <<>>
    /\ occupied_edges = <<>>
    /\ paths = <<>>
    /\ result = <<>>
    /\ start = 0
    /\ goal = 0
    /\ open_heap = {}
    /\ came_from = <<>>
    /\ g = <<>>
    /\ LL_CACHE = <<>>
    /\ pops = 0
    /\ ll_seen = <<>>
    /\ ll_last = <<>>
    /\ km = 0
    /\ rhs = <<>>
    /\ queue = {}
    /\ path_nodes = <<>>
    /\ calls = <<>>
    /\ ors_summary = <<>>
    /\ polylines = <<>>
    /\ vehicle_way_nodes = <<>>

\* one iteration of the for loop of prioritized_plan; the last one returns
PlanNextAgent ==
    /\ mode = "pp"
    /\ pc = "run"
    /\ LET name == priority_order[pidx]
           agent == AgentByName(name)
           path == time_expanded_astar(G, agent, occupied_nodes, occupied_edges)
       IN  IF path = <<>>
           THEN /\ pc' = "raised"
                /\ UNCHANGED <<pidx, occupied_nodes, occupied_edges, paths, result>>
           ELSE /\ paths' = (name :> path) @@ paths
                /\ occupied_nodes' = ReserveNodes(occupied_nodes, path)
                /\ occupied_edges' = ReserveEdges(occupied_edges, path)
                /\ pidx' = pidx + 1
                /\ IF pidx = Len(priority_order)
                   THEN pc' = "returned" /\ result' = paths'
                   ELSE UNCHANGED <<pc, result>>
    /\ UNCHANGED <<mode, G, pos, agents, max_t, priority_order>>
    /\ UNCHANGED astarVars
    /\ UNCHANGED cbsVars
    /\ UNCHANGED dstarVars
    /\ UNCHANGED <<ors_summary, polylines, vehicle_way_nodes>>

SpecPP == InitPP /\ [][PlanNextAgent]_vars

\* position of a name in the priority order
OrderIndex(name) == CHOOSE i \in 1..Len(priority_order) : priority_order[i] = name

\* path pi never takes, at an index from, a node or an edge that path pj holds at
\* the same index
AvoidsFrom(from, pi, pj) ==
    \A k \in from..Len(pi) :
        k <= Len(pj) =>
            /\ pi[k] # pj[k]
            /\ k >= 2 => ~(pi[k - 1] = pj[k - 1] /\ pi[k] = pj[k])

\* C4 as stated: every committed path avoids, at every time index, time 0
\* included, the nodes and edges reserved by the agents planned before it.
C4_RespectsReservations ==
    mode = "pp" =>
        \A ni \in DOMAIN paths, nj \in DOMAIN paths :
            OrderIndex(nj) < OrderIndex(ni) => AvoidsFrom(1, paths[ni], paths[nj])

\* the same from time 1 on: the part of C4 the code keeps
PP_RespectsReservationsAfterStart ==
    mode = "pp" =>
        \A ni \in DOMAIN paths, nj \in DOMAIN paths :
            OrderIndex(nj) < OrderIndex(ni) => AvoidsFrom(2, paths[ni], paths[nj])

-----------------------------------------------------------------------------
(* cbs.py *)

\* a constraint placed one time step after the conflict
ConstraintOneStepLater(a, n, t) == [agent |-> a, node |-> n, time |-> t + 1]

Constraint(a, n, t) == [agent |-> a, node |-> n, time |-> t]

\* a key that keeps every agent's constraints
KeyOfAllAgents(agent, constraints) ==
    {<<constraints[i].node, constraints[i].time>> : i \in 1..Len(constraints)}

\* frozenset((c.node, c.time) for c in constraints if c.agent == agent.name)
constraints_key_for_agent(agent, constraints) ==
    {<<constraints[i].node, constraints[i].time>> :
        i \in {j \in 1..Len(constraints) : constraints[j].agent = agent.name}}

\* a check that forbids a constrained node at every time
blocked_at_all_times(ckey, node, t) == \E c \in ckey : c[1] = node

\* node in constraints_by_time.get(t, ())
blocked(ckey, node, t) == <<node, t>> \in ckey

\* the while loop of low_level_search
RECURSIVE BfsLoop(_, _, _, _, _)
BfsLoop(Gr, agent, ckey, frontier, cf) ==
    IF frontier = <<>> THEN <<>>
    ELSE LET node == Head(frontier)[1]
             t == Head(frontier)[2]
         IN  IF t > max_t THEN BfsLoop(Gr, agent, ckey, Tail(frontier), cf)
             ELSE IF node = agent.goal THEN StatesPath(cf, <<node, t>>)
             ELSE LET next_t == t + 1
                      cand == <<node>> \o successors(Gr, node)
                      R[i \in 0..Len(cand)] ==
                          IF i = 0 THEN [frontier |-> Tail(frontier), cf |-> cf]
                          ELSE LET q == R[i - 1]
                                   state == <<cand[i], next_t>>
                               IN  IF blocked(ckey, cand[i], next_t) THEN q
                                   ELSE IF state \notin DOMAIN q.cf
                                   THEN [frontier |-> Append(q.frontier, state),
                                         cf |-> (state :> <<node, t>>) @@ q.cf]
                                   ELSE q
                      r == R[Len(cand)]
                  IN  BfsLoop(Gr, agent, ckey, r.frontier, r.cf)

\* low_level_search: the path returned and the cache it leaves
low_level_search(Gr, agent, constraints, cache) ==
    LET ckey == constraints_key_for_agent(agent, constraints)
        cache_key == <<agent.name, agent.start, agent.goal, max_t, ckey>>
    IN  IF cache_key \in DOMAIN cache
        THEN [path |-> cache[cache_key], cache |-> cache]
        ELSE LET start_state == <<agent.start, 0>>
                 path == BfsLoop(Gr, agent, ckey, <<start_state>>,
                                 (start_state :> None))
             IN  [path |-> path, cache |-> (cache_key :> path) @@ cache]

\* p[t] if t < len(p) else p[-1], for a time t counted from 0
At(p, t) == IF t < Len(p) THEN p[t + 1] ELSE p[Len(p)]

MaxLen(ps, names) ==
    LET F[i \in 0..Len(names)] ==
            IF i = 0 THEN 0
            ELSE IF Len(ps[names[i]]) > F[i - 1] THEN Len(ps[names[i]]) ELSE F[i - 1]
    IN  F[Len(names)]

\* list(paths.keys()): the names in the order the root inserted them
NamesOf(ags) == [i \in 1..Len(ags) |-> ags[i].name]

\* the (t, i, j) at which two paths coincide, i < j positions in names
Coincidences(ps, names) ==
    { c \in (0..(MaxLen(ps, names) - 1)) \X (1..Len(names)) \X (1..Len(names)) :
        /\ c[2] < c[3]
        /\ At(ps[names[c[2]]], c[1]) = At(ps[names[c[3]]], c[1]) }

NoConflict == [time |-> -1, a1 |-> "", a2 |-> "", node |-> -1]

\* a scan that starts at time 1
detect_after_start(ps, names) ==
    LET cs == {c \in Coincidences(ps, names) : c[1] >= 1}
    IN  IF cs = {} THEN NoConflict
        ELSE LET c == LexMin(cs)
             IN  [time |-> c[1], a1 |-> names[c[2]], a2 |-> names[c[3]],
                  node |-> At(ps[names[c[2]]], c[1])]

\* a scan whose outer loops run over the pairs and whose inner loop over time
detect_pair_by_pair(ps, names) ==
    LET cs == {<<c[2], c[3], c[1]>> : c \in Coincidences(ps, names)}
    IN  IF cs = {} THEN NoConflict
        ELSE LET c == LexMin(cs)
             IN  [time |-> c[3], a1 |-> names[c[1]], a2 |-> names[c[2]],
                  node |-> At(ps[names[c[1]]], c[3])]

\* for t in range(T): for i in range(len(names)):
\*     for j in range(i + 1, len(names)): ... if n1 == n2: return Conflict(...)
\* from the position (t, i, j) of the three loops on; return None at the end
RECURSIVE ScanConflict(_, _, _, _, _, _)
ScanConflict(ps, names, T, t, i, j) ==
    IF t >= T THEN NoConflict
    ELSE IF i > Len(names) THEN ScanConflict(ps, names, T, t + 1, 1, 2)
    ELSE IF j > Len(names) THEN ScanConflict(ps, names, T, t, i + 1, i + 2)
    ELSE LET n1 == At(ps[names[i]], t)
             n2 == At(ps[names[j]], t)
         IN  IF n1 = n2
             THEN [time |-> t, a1 |-> names[i], a2 |-> names[j], node |-> n1]
             ELSE ScanConflict(ps, names, T, t, i, j + 1)

\* detect_first_conflict: None for an empty mapping, else the scan from
\* t = 0 and the first pair, T = max(len(p) for p in paths.values())
detect_first_conflict(ps, names) ==
    IF names = <<>> THEN NoConflict
    ELSE ScanConflict(ps, names, MaxLen(ps, names), 0, 1, 2)

\* sum(len(p) for p in paths.values())
SumLen(ps, names) ==
    LET F[i \in 0..Len(names)] ==
            IF i = 0 THEN 0 ELSE F[i - 1] + Len(ps[names[i]])
    IN  F[Len(names)]

CBSTreeNode(constraints, ps) ==
    [constraints |-> constraints, paths |-> ps,
     cost |-> SumLen(ps, NamesOf(agents))]

\* an order that puts the costlier node first
NodeCostlier(a, b) == a.cost > b.cost

\* CBSTreeNode.__lt__
NodeLess(a, b) == a.cost < b.cost

\* heapq._siftdown(heap, startpos, pos), positions counted from 0
RECURSIVE SiftDown(_, _, _, _)
SiftDown(heap, startpos, p, newitem) ==
    IF p > startpos
    THEN LET parentpos == (p - 1) \div 2
             parent == heap[parentpos + 1]
         IN  IF NodeLess(newitem, parent)
             THEN SiftDown([heap EXCEPT ![p + 1] = parent], startpos, parentpos,
                           newitem)
             ELSE [heap EXCEPT ![p + 1] = newitem]
    ELSE [heap EXCEPT ![p + 1] = newitem]

\* heapq._siftup(heap, pos)
RECURSIVE SiftUp(_, _, _, _)
SiftUp(heap, startpos, p, newitem) ==
    LET endpos == Len(heap)
        childpos == 2 * p + 1
        rightpos == childpos + 1
    IN  IF childpos < endpos
        THEN LET c == IF rightpos < endpos
                         /\ ~NodeLess(heap[childpos + 1], heap[rightpos + 1])
                      THEN rightpos ELSE childpos
             IN  SiftUp([heap EXCEPT ![p + 1] = heap[c + 1]], startpos, c, newitem)
        ELSE SiftDown([heap EXCEPT ![p + 1] = newitem], startpos, p, newitem)

heappush(heap, item) == SiftDown(Append(heap, item), 0, Len(heap), item)

\* heapq.heappop: the item returned and the heap left
heappop(heap) ==
    LET lastelt == heap[Len(heap)]
        short == SubSeq(heap, 1, Len(heap) - 1)
    IN  IF short # <<>>
        THEN [item |-> heap[1],
              heap |-> SiftUp([short EXCEPT ![1] = lastelt], 0, 0, lastelt)]
        ELSE [item |-> lastelt, heap |-> short]

\* next(a for a in agents if a.name == offender)
AgentObj(offender) ==
    agents[CHOOSE i \in 1..Len(agents) :
             /\ agents[i].name = offender
             /\ \A j \in 1..(i - 1) : agents[j].name # offender]

\* the for loop that plans the root paths: [ok, paths, cache]
RootPaths(cache) ==
    LET F[i \in 0..Len(agents)] ==
            IF i = 0 THEN [ok |-> TRUE, paths |-> <<>>, cache |-> cache]
            ELSE LET q == F[i - 1]
                     r == low_level_search(G, agents[i], <<>>, q.cache)
                 IN  IF ~q.ok THEN q
                     ELSE IF r.path = <<>>
                     THEN [ok |-> FALSE, paths |-> q.paths, cache |-> r.cache]
                     ELSE [ok |-> TRUE, paths |-> (agents[i].name :> r.path) @@ q.paths,
                           cache |-> r.cache]
    IN  F[Len(agents)]

\* the for loop over the two offenders of a conflict: [heap, cache]
Branch(node, conflict, heap, cache) ==
    LET offenders == <<conflict.a1, conflict.a2>>
        F[i \in 0..2] ==
            IF i = 0 THEN [heap |-> heap, cache |-> cache]
            ELSE LET q == F[i - 1]
                     offender == offenders[i]
                     new_constraints ==
                         Append(node.constraints,
                                Constraint(offender, conflict.node, conflict.time))
                     r == low_level_search(G, AgentObj(offender), new_constraints,
                                           q.cache)
                 IN  IF r.path = <<>> THEN [heap |-> q.heap, cache |-> r.cache]
                     ELSE [heap |-> heappush(q.heap,
                                      CBSTreeNode(new_constraints,
                                                  (offender :> r.path) @@ node.paths)),
                           cache |-> r.cache]
    IN  F[2]

\* two agents with any start and goal, or those two and a third that stays
\* on node 2
CBSAgentLists ==
    { <<Agent(1, s1, g1), Agent(2, s2, g2)>> :
        s1 \in Nodes, g1 \in Nodes, s2 \in Nodes, g2 \in Nodes }
    \cup
    { <<Agent(1, s1, g1), Agent(2, s2, g2), Agent(3, 2, 2)>> :
        s1 \in Nodes, g1 \in Nodes, s2 \in Nodes, g2 \in Nodes }

\* what an earlier call on another graph left in the cache for the first agent
StaleCache(ags) ==
    (<<ags[1].name, ags[1].start, ags[1].goal, MaxT, {}>> :>
        <<ags[1].start, ags[1].goal>>)

InitCBS ==
    /\ mode = "cbs"
    /\ pc = "start"
    /\ G \in Graphs({1, 2, 3, 4, 6, 7}, {1})
    /\ pos = [n \in Nodes |-> 0]
    /\ agents \in CBSAgentLists
    /\ max_t = MaxT
    /\ LL_CACHE \in {<<>>, StaleCache(agents)}
    /\ open_heap = <<>>
    /\ pops = 0
    /\ result = <<>>
    /\ ll_seen = <<>>
    /\ ll_last = <<>>
    /\ km = 0
    /\ rhs = <<>>
    /\ queue = {}
    /\ path_nodes = <<>>
    /\ calls = <<>>
    /\ ors_summary = <<>>
    /\ polylines = <<>>
    /\ vehicle_way_nodes = <<>>
    /\ start = 0
    /\ goal = 0
    /\ came_from = <<>>
    /\ g = <<>>
    /\ priority_order = <<>>
    /\ pidx = 0
    /\ occupied_nodes = <<>>
    /\ occupied_edges = <<>>
    /\ paths = <<>>

\* the cache carried over from the earlier call
KeptCache(cache) == cache

\* _LL_CACHE.clear()
ClearedCache(cache) == <<>>

\* cbs_plan up to its while loop: clear the cache, plan the root, push it
CBSRoot ==
    /\ mode = "cbs"
    /\ pc = "start"
    /\ LET r == RootPaths(ClearedCache(LL_CACHE))
       IN  /\ LL_CACHE' = r.cache
           /\ IF r.ok
              THEN /\ open_heap' = heappush(<<>>, CBSTreeNode(<<>>, r.paths))
                   /\ pc' = "run"
              ELSE /\ pc' = "raised"
                   /\ UNCHANGED open_heap
    /\ UNCHANGED <<mode, G, pos, agents, max_t, result, pops, ll_seen, ll_last>>
    /\ UNCHANGED astarVars2
    /\ UNCHANGED ppVars
    /\ UNCHANGED dstarVars
    /\ UNCHANGED <<ors_summary, polylines, vehicle_way_nodes>>

\* one iteration of the while loop of cbs_plan, or its final raise
CBSIterate ==
    /\ mode = "cbs"
    /\ pc = "run"
    /\ open_heap = <<>> \/ pops < MaxPops
    /\ IF open_heap = <<>>
       THEN /\ pc' = "raised"
            /\ UNCHANGED <<open_heap, LL_CACHE, result, pops>>
       ELSE LET popped == heappop(open_heap)
                node == popped.item
                conflict == detect_first_conflict(node.paths, NamesOf(agents))
            IN  /\ pops' = pops + 1
                /\ IF conflict = NoConflict
                   THEN /\ result' = node.paths
                        /\ pc' = "returned"
                        /\ open_heap' = popped.heap
                        /\ UNCHANGED LL_CACHE
                   ELSE LET r == Branch(node, conflict, popped.heap, LL_CACHE)
                        IN  /\ open_heap' = r.heap
                            /\ LL_CACHE' = r.cache
                            /\ UNCHANGED <<pc, result>>
    /\ UNCHANGED <<mode, G, pos, agents, max_t, ll_seen, ll_last>>
    /\ UNCHANGED astarVars2
    /\ UNCHANGED ppVars
    /\ UNCHANGED dstarVars
    /\ UNCHANGED <<ors_summary, polylines, vehicle_way_nodes>>

NextCBS == CBSRoot \/ CBSIterate

SpecCBS == InitCBS /\ [][NextCBS]_vars

(* two direct calls of low_level_search on one graph *)

\* the constraints a caller may name: the searched agent "a" or another agent
ConstraintChoices ==
    {Constraint("a", 1, 1), Constraint("a", 1, 2), Constraint("a", 3, 1),
     Constraint("b", 1, 1), Constraint("b", 3, 2)}

ConstraintLists ==
    UNION {[1..k -> ConstraintChoices] : k \in 0..MaxConstraints}

InitLL ==
    /\ mode = "ll"
    /\ pc = "first"
    /\ G \in {gr \in Graphs({1, 2, 3, 4, 6}, {1}) :
                has_edge(gr, 0, 1) /\ has_edge(gr, 1, 2)}
    /\ pos = [n \in Nodes |-> 0]
    /\ agents \in {<<Agent(1, 0, 2)>>, <<Agent(1, 3, 2)>>, <<Agent(1, 3, 0)>>}
    /\ max_t = MaxT
    /\ LL_CACHE = <<>>
    /\ ll_seen = <<>>
    /\ ll_last = <<>>
    /\ km = 0
    /\ rhs = <<>>
    /\ queue = {}
    /\ path_nodes = <<>>
    /\ calls = <<>>
    /\ ors_summary = <<>>
    /\ polylines = <<>>
    /\ vehicle_way_nodes = <<>>
    /\ open_heap = <<>>
    /\ pops = 0
    /\ result = <<>>
    /\ start = 0
    /\ goal = 0
    /\ came_from = <<>>
    /\ g = <<>>
    /\ priority_order = <<>>
    /\ pidx = 0
    /\ occupied_nodes = <<>>
    /\ occupied_edges = <<>>
    /\ paths = <<>>

\* the (node, time) pairs a constraint list holds for an agent name
OwnConstraints(name, constraints) ==
    {<<c.node, c.time>> : c \in {constraints[i] : i \in 1..Len(constraints)} \cap
                                {Constraint(name, n, t) : n \in Nodes, t \in 0..(MaxT + 1)}}

\* a caller calls low_level_search(G, agent, constraints, max_t)
LLCall ==
    /\ mode = "ll"
    /\ pc \in {"first", "second"}
    /\ \E constraints \in ConstraintLists :
          LET agent == agents[1]
              r == low_level_search(G, agent, constraints, LL_CACHE)
              own == OwnConstraints(agent.name, constraints)
          IN  /\ LL_CACHE' = r.cache
              /\ ll_last' = [own |-> own, constraints |-> constraints, path |-> r.path]
              /\ ll_seen' = IF own \in DOMAIN ll_seen THEN ll_seen
                            ELSE (own :> [constraints |-> constraints,
                                           path |-> r.path]) @@ ll_seen
    /\ pc' = IF pc = "first" THEN "second" ELSE "returned"
    /\ UNCHANGED <<mode, G, pos, agents, max_t, result, pops, open_heap>>
    /\ UNCHANGED astarVars2
    /\ UNCHANGED ppVars
    /\ UNCHANGED dstarVars
    /\ UNCHANGED <<ors_summary, polylines, vehicle_way_nodes>>

SpecLL == InitLL /\ [][LLCall]_vars

\* C10: two calls of low_level_search on one graph with the same agent, max_t
\* and set of constraints of that agent return the same path, whatever the
\* order and repetition of the constraints and the constraints of other agents.
C10_SameConstraintsSamePath ==
    (mode = "ll" /\ pc # "first") => ll_last.path = ll_seen[ll_last.own].path

\* the second call gave a path with a wait for a list that holds the same
\* constraints of the agent as the first call's list, which it differs from,
\* and names another agent as well
C10_Witness ==
    /\ mode = "ll"
    /\ pc = "returned"
    /\ Len(ll_last.constraints) = 2
    /\ ll_seen[ll_last.own].constraints # ll_last.constraints
    /\ \E i \in 1..2 : ll_last.constraints[i].agent = "b"
    /\ ll_last.own # {}
    /\ \E k \in 1..(Len(ll_last.path) - 1) : ll_last.path[k] = ll_last.path[k + 1]

(* cbs_plan: conflict freedom and termination *)

\* where an agent is at time t: on its path, then on its last node for ever
Occupies(p, t) == p[IF t + 1 <= Len(p) THEN t + 1 ELSE Len(p)]

\* times up to and beyond the end of every path the horizon allows
Times == 0..(MaxT + 2)

CBSReturned == mode = "cbs" /\ pc = "returned"

\* C1: in a plan cbs_plan returns no two distinct agents are on the same node
\* at any time, an agent whose path has ended staying on its last node.
C1_ReturnedPlanConflictFree ==
    CBSReturned =>
        \A a \in DOMAIN result, b \in DOMAIN result :
            a # b => \A t \in Times : Occupies(result[a], t) # Occupies(result[b], t)

\* cbs_plan returned for three agents after resolving a conflict: some agent
\* waits on a node.
C1_Witness ==
    /\ CBSReturned
    /\ pops >= 2
    /\ Len(agents) = 3
    /\ \E a \in DOMAIN result :
          \E k \in 1..(Len(result[a]) - 1) : result[a][k] = result[a][k + 1]

\* a tree node whose two agents start on one node and whose constraints all
\* name time 0
StartConflict(nd) ==
    \E i \in 1..Len(agents), j \in 1..Len(agents) :
        i < j /\ nd.paths[agents[i].name][1] = nd.paths[agents[j].name][1]

OnlyTimeZero(nd) ==
    \A k \in 1..Len(nd.constraints) : nd.constraints[k].time = 0

\* the loop has popped twice and runs on an open heap that is not empty and
\* holds only such nodes: none of them can be returned, and each, when popped,
\* pushes a child of the same kind, since a constraint at time 0 prunes nothing
Trapped ==
    /\ mode = "cbs"
    /\ pc = "run"
    /\ pops >= 2
    /\ open_heap # <<>>
    /\ \A k \in 1..Len(open_heap) :
          StartConflict(open_heap[k]) /\ OnlyTimeZero(open_heap[k])

\* no step of the loop leaves Trapped: a call that enters it pops for ever
CBS_TrappedIsClosed == [][Trapped => Trapped']_vars

\* C2: every call of cbs_plan ends, by a return or a raise, after finitely
\* many pops.  A call that reaches Trapped never ends (CBS_TrappedIsClosed),
\* so the claim requires that no call reaches it.
C2_NeverTrapped == ~Trapped

\* the scenario of C3: the diamond, two agents from node 0 to node 2
Diamond == G.edges = <<<<0, 1>>, <<1, 2>>, <<0, 3>>, <<3, 2>>>>

DiamondScenario ==
    /\ mode = "cbs"
    /\ Diamond
    /\ agents = <<Agent(1, 0, 2), Agent(2, 0, 2)>>

\* C3: on the diamond cbs_plan returns a plan with one path through node 1 and
\* the other through node 3, no vertex conflict and cost 4: the call does not
\* get trapped, and what it returns is that plan.
C3_DiamondPlan ==
    DiamondScenario =>
        /\ ~Trapped
        /\ pc # "raised"
        /\ pc = "returned" =>
              /\ {result["a"], result["b"]} = {<<0, 1, 2>>, <<0, 3, 2>>}
              /\ \A t \in Times : Occupies(result["a"], t) # Occupies(result["b"], t)
              /\ Len(result["a"]) + Len(result["b"]) = 4

(* the three planners side by side: what a path looks like *)

InitPaths == InitAStar \/ InitPP \/ InitCBS

NextPaths == AStarStep \/ PlanNextAgent \/ CBSRoot \/ CBSIterate

SpecPaths == InitPaths /\ [][NextPaths]_vars

\* a non-empty path from s to t along edges of G, waits allowed or not
WellFormed(p, s, t, waits) ==
    p # <<>> =>
        /\ p[1] = s
        /\ p[Len(p)] = t
        /\ \A k \in 1..(Len(p) - 1) :
              \/ has_edge(G, p[k], p[k + 1])
              \/ waits /\ p[k] = p[k + 1]

PlanWellFormed(ps) ==
    \A name \in DOMAIN ps :
        WellFormed(ps[name], AgentByName(name).start, AgentByName(name).goal, TRUE)

\* C9: every non-empty path astar_shortest_path, time_expanded_astar /
\* prioritized_plan and low_level_search / cbs_plan produce for an agent begins
\* at its start, ends at its goal, and moves along directed edges of the graph
\* or, in the time-expanded searches only, waits on a node.
C9_PathsWellFormed ==
    /\ (mode = "astar" /\ pc = "returned") =>
            WellFormed(result.path, start, goal, FALSE)
    /\ mode = "pp" =>
            /\ PlanWellFormed(paths)
            /\ pc = "returned" => PlanWellFormed(result)
    /\ (mode = "cbs" /\ pc # "start") =>
            /\ \A i \in 1..Len(open_heap) : PlanWellFormed(open_heap[i].paths)
            /\ \A key \in DOMAIN LL_CACHE :
                  WellFormed(LL_CACHE[key], key[2], key[3], TRUE)
            /\ pc = "returned" => PlanWellFormed(result)

\* cbs_plan has popped twice and holds a tree node in which an agent both
\* waits and moves along an edge
C9_Witness ==
    /\ mode = "cbs"
    /\ pc = "run"
    /\ pops >= 2
    /\ \E i \in 1..Len(open_heap) : \E name \in DOMAIN open_heap[i].paths :
          LET p == open_heap[i].paths[name]
          IN  /\ Len(p) >= 3
              /\ \E k \in 1..(Len(p) - 1) : p[k] = p[k + 1]
              /\ \E k \in 1..(Len(p) - 1) : p[k] # p[k + 1]

-----------------------------------------------------------------------------
(* dstar_lite.py: DStarLite *)

\* A float of D* Lite: <<1, 0, 0, 0>> is float("inf"), and <<0, c2, c1, c0>>
\* is c2 * 1e12 + c1 * 1e6 + c0 with c1 and c0 small, a range in which the
\* sums of doubles are exact.
Inf == <<1, 0, 0, 0>>

Num(c) == <<0, 0, 0, c>>

NumAdd(a, b) ==
    IF a[1] = 1 \/ b[1] = 1 THEN Inf
    ELSE <<0, a[2] + b[2], a[3] + b[3], a[4] + b[4]>>

NumLess(a, b) ==
    \E i \in 1..4 : a[i] < b[i] /\ \A j \in 1..(i - 1) : a[j] = b[j]

NumMin(a, b) == IF NumLess(b, a) THEN b ELSE a

\* a blocked edge made impassable rather than costly
TimesInfinity(a) == Inf

\* a blocking factor of a thousand
Times1e3(a) == <<0, a[2], a[3], a[4] * 1000>>

\* old_cost * 1e6
Times1e6(a) == <<0, a[3], a[4], 0>>

\* the comparison of two keys (k1, k2)
KeyLess(a, b) == NumLess(a[1], b[1]) \/ (a[1] = b[1] /\ NumLess(a[2], b[2]))

\* the comparison of two heap entries ((k1, k2), node)
EntryLess(a, b) == KeyLess(a[1], b[1]) \/ (a[1] = b[1] /\ a[2] < b[2])

\* self.queue[0]
QueueTop(q) == CHOOSE x \in q : \A y \in q : x = y \/ EntryLess(x, y)

\* an estimate that keeps the sign of the coordinate difference
heuristic_signed(u, v) == pos[u] - pos[v]

\* haversine distance over the average speed, for nodes on one line
heuristic(u, v) == Abs(pos[u] - pos[v])

edge_cost(Gr, u, v) == Gr.travel_time[<<u, v>>]

calculate_key(s, u, st, k) ==
    LET min_val == NumMin(s.g[u], s.rhs[u])
    IN  <<NumAdd(NumAdd(min_val, Num(heuristic(st, u))), Num(k)), min_val>>

\* the least cost + g over the successors of u, and the first successor
\* that attains it
BestSuccessor(Gr, gd, u) ==
    LET succ == successors(Gr, u)
        F[i \in 0..Len(succ)] ==
            IF i = 0 THEN [min_cost |-> Inf, best_next |-> -1]
            ELSE LET c == NumAdd(edge_cost(Gr, u, succ[i]), gd[succ[i]])
                 IN  IF NumLess(c, F[i - 1].min_cost)
                     THEN [min_cost |-> c, best_next |-> succ[i]]
                     ELSE F[i - 1]
    IN  F[Len(succ)]

\* a vertex update that pushes the new key and leaves the old entry in place
update_vertex_lazily(Gr, s, u, st, gl, k) ==
    LET rhs1 == IF u # gl
                THEN [s.rhs EXCEPT ![u] = BestSuccessor(Gr, s.g, u).min_cost]
                ELSE s.rhs
        s1 == [s EXCEPT !.rhs = rhs1]
    IN  [s1 EXCEPT !.queue = IF s.g[u] # rhs1[u]
                             THEN s.queue \cup {<<calculate_key(s1, u, st, k), u>>}
                             ELSE s.queue]

\* s is [g, rhs, queue]
update_vertex(Gr, s, u, st, gl, k) ==
    LET rhs1 == IF u # gl
                THEN [s.rhs EXCEPT ![u] = BestSuccessor(Gr, s.g, u).min_cost]
                ELSE s.rhs
        s1 == [s EXCEPT !.rhs = rhs1]
        q1 == {item \in s.queue : item[2] # u}
    IN  [s1 EXCEPT !.queue = IF s.g[u] # rhs1[u]
                             THEN q1 \cup {<<calculate_key(s1, u, st, k), u>>}
                             ELSE q1]

\* a change of g(u) that is not passed on to the predecessors of u
KeepPredecessors(Gr, s, u, st, gl, k) == s

\* for pred in self.G.predecessors(u): self._update_vertex(pred)
UpdatePredecessors(Gr, s, u, st, gl, k) ==
    LET preds == predecessors(Gr, u)
        F[i \in 0..Len(preds)] ==
            IF i = 0 THEN s ELSE update_vertex(Gr, F[i - 1], preds[i], st, gl, k)
    IN  F[Len(preds)]

RECURSIVE compute_shortest_path(_, _, _, _, _)
compute_shortest_path(Gr, s, st, gl, k) ==
    IF s.queue = {} THEN s
    ELSE LET top == QueueTop(s.queue)
             k_old == top[1]
             u == top[2]
             k_new == calculate_key(s, u, st, k)
             k_start == calculate_key(s, st, st, k)
         IN  IF KeyLess(k_old, k_start) \/ s.rhs[st] # s.g[st]
             THEN LET popped == [s EXCEPT !.queue = s.queue \ {top}]
                  IN  IF KeyLess(k_old, k_new)
                      THEN compute_shortest_path(Gr,
                              [popped EXCEPT !.queue = popped.queue \cup {<<k_new, u>>}],
                              st, gl, k)
                      ELSE IF NumLess(s.rhs[u], s.g[u])
                      THEN compute_shortest_path(Gr,
                              UpdatePredecessors(Gr,
                                  [popped EXCEPT !.g[u] = s.rhs[u]], u, st, gl, k),
                              st, gl, k)
                      ELSE compute_shortest_path(Gr,
                              update_vertex(Gr,
                                  UpdatePredecessors(Gr,
                                      [popped EXCEPT !.g[u] = Inf], u, st, gl, k),
                                  u, st, gl, k),
                              st, gl, k)
             ELSE s

RECURSIVE ExtractLoop(_, _, _, _)
ExtractLoop(Gr, gd, gl, path) ==
    LET curr == path[Len(path)]
        b == BestSuccessor(Gr, gd, curr)
    IN  IF curr # gl /\ Len(path) < Cardinality(Nodes) * 2
        THEN IF b.best_next = -1 \/ b.min_cost = Inf THEN path
             ELSE ExtractLoop(Gr, gd, gl, Append(path, b.best_next))
        ELSE path

\* an extraction that gives up when the walk does not reach the goal
extract_path_or_nothing(Gr, gd, st, gl) ==
    LET p == ExtractLoop(Gr, gd, gl, <<st>>)
    IN  IF p[Len(p)] = gl THEN p ELSE <<>>

\* an extraction that ends every path on the goal, reached or not
extract_path_to_goal(Gr, gd, st, gl) ==
    LET p == ExtractLoop(Gr, gd, gl, <<st>>)
    IN  IF p[Len(p)] = gl THEN p ELSE Append(p, gl)

extract_path(Gr, gd, st, gl) == ExtractLoop(Gr, gd, gl, <<st>>)

\* the graphs D* Lite is built on: unit travel_time, as build_graph sets it
DStarGraphs ==
    {[edges |-> gr.edges,
      travel_time |-> [e \in DOMAIN gr.travel_time |-> Num(gr.travel_time[e])]] :
        gr \in {x \in Graphs({1, 2, 3, 4, 6}, {1}) :
                    has_edge(x, 0, 1) /\ has_edge(x, 1, 2)}}

\* node coordinates with the goal at the origin: neighbours at distance 0 or
\* 1, or all of that scaled by MaxPos
DStarPositions ==
    {[n \in Nodes |-> k * b[n]] : k \in {1, MaxPos},
                                  b \in {x \in [Nodes -> {0, 1}] : x[2] = 0}}

\* DStarLite.__init__
InitDStar ==
    /\ mode = "dstar"
    /\ pc = "idle"
    /\ G \in DStarGraphs
    /\ pos \in DStarPositions
    /\ start \in {0, 3}
    /\ goal = 2
    /\ km = 0
    /\ LET s0 == [g |-> [n \in Nodes |-> Inf],
                  rhs |-> [n \in Nodes |-> IF n = goal THEN Num(0) ELSE Inf],
                  queue |-> {}]
           s1 == [s0 EXCEPT !.queue = {<<calculate_key(s0, goal, start, 0), goal>>}]
           s2 == compute_shortest_path(G, s1, start, goal, 0)
       IN  /\ g = s2.g
           /\ rhs = s2.rhs
           /\ queue = s2.queue
           /\ path_nodes = extract_path(G, s2.g, start, goal)
    /\ calls = [step |-> 0, block |-> 0, last |-> <<"init">>]
    /\ ors_summary = <<>>
    /\ polylines = <<>>
    /\ vehicle_way_nodes = <<>>
    /\ open_heap = <<>>
    /\ came_from = <<>>
    /\ result = <<>>
    /\ agents = <<>>
    /\ max_t = 0
    /\ priority_order = <<>>
    /\ pidx = 0
    /\ occupied_nodes = <<>>
    /\ occupied_edges = <<>>
    /\ paths = <<>>
    /\ LL_CACHE = <<>>
    /\ pops = 0
    /\ ll_seen = <<>>
    /\ ll_last = <<>>

\* DStarLite.step
step ==
    /\ mode = "dstar"
    /\ calls.step < MaxSteps
    /\ LET b == BestSuccessor(G, g, start)
       IN  IF start = goal \/ b.best_next = -1
           THEN UNCHANGED <<start, km, path_nodes>>
           ELSE /\ km' = km + heuristic(start, b.best_next)
                /\ start' = b.best_next
                /\ path_nodes' = extract_path(G, g, b.best_next, goal)
    /\ calls' = [calls EXCEPT !.step = @ + 1, !.last = <<"step">>]
    /\ UNCHANGED <<mode, pc, G, pos, goal, g, rhs, queue>>
    /\ UNCHANGED <<open_heap, came_from, result, agents, max_t, ors_summary,
                 polylines, vehicle_way_nodes>>
    /\ UNCHANGED ppVars
    /\ UNCHANGED cbsVars

\* DStarLite.block_edge_and_replan(u, v); the cost of an edge is raised while
\* it stays below 1e18
block_edge_and_replan ==
    /\ mode = "dstar"
    /\ calls.block < MaxBlocks
    /\ \E i \in 1..Len(EdgeUniverse) :
          LET u == EdgeUniverse[i][1]
              v == EdgeUniverse[i][2]
          IN  /\ has_edge(G, u, v) => edge_cost(G, u, v)[2] = 0
              /\ calls' = [calls EXCEPT !.block = @ + 1, !.last = <<"block", u, v>>]
              /\ IF has_edge(G, u, v)
                 THEN LET new_cost == Times1e6(edge_cost(G, u, v))
                          G1 == [G EXCEPT !.travel_time[<<u, v>>] = new_cost]
                          s0 == [g |-> g, rhs |-> rhs, queue |-> queue]
                          s1 == update_vertex(G1, s0, u, start, goal, km)
                          s2 == compute_shortest_path(G1, s1, start, goal, km)
                      IN  /\ G' = G1
                          /\ g' = s2.g
                          /\ rhs' = s2.rhs
                          /\ queue' = s2.queue
                          /\ path_nodes' = extract_path(G1, s2.g, start, goal)
                 ELSE UNCHANGED <<G, g, rhs, queue, path_nodes>>
    /\ UNCHANGED <<mode, pc, pos, start, goal, km>>
    /\ UNCHANGED <<open_heap, came_from, result, agents, max_t, ors_summary,
                 polylines, vehicle_way_nodes>>
    /\ UNCHANGED ppVars
    /\ UNCHANGED cbsVars

NextDStar == step \/ block_edge_and_replan

SpecDStar == InitDStar /\ [][NextDStar]_vars

-----------------------------------------------------------------------------
(* DStarLite: what a repaired plan promises *)

\* the nodes that reach t along directed edges of Gr, without edge <<bu, bv>>
RECURSIVE ReachingWithout(_, _, _, _)
ReachingWithout(Gr, S, bu, bv) ==
    LET T == S \cup {e[1] : e \in {x \in EdgeSet(Gr) : x[2] \in S /\ x # <<bu, bv>>}}
    IN  IF T = S THEN S ELSE ReachingWithout(Gr, T, bu, bv)

CanReach(Gr, s, t) == s \in ReachingWithout(Gr, {t}, -1, -1)

CanReachWithout(Gr, s, t, bu, bv) == s \in ReachingWithout(Gr, {t}, bu, bv)

\* the least total travel_time from n to t over walks of at most k edges
RECURSIVE LeastCost(_, _, _, _)
LeastCost(Gr, k, n, t) ==
    IF n = t THEN Num(0)
    ELSE IF k = 0 THEN Inf
    ELSE LET succ == successors(Gr, n)
             F[i \in 0..Len(succ)] ==
                 IF i = 0 THEN Inf
                 ELSE NumMin(F[i - 1],
                             NumAdd(edge_cost(Gr, n, succ[i]),
                                    LeastCost(Gr, k - 1, succ[i], t)))
         IN  F[Len(succ)]

ShortestTravelTime(Gr, s, t) == LeastCost(Gr, Cardinality(Nodes) - 1, s, t)

\* the total travel_time of a path along edges of Gr, Inf if it leaves them
RECURSIVE TravelTime(_, _)
TravelTime(Gr, p) ==
    IF Len(p) <= 1 THEN Num(0)
    ELSE IF ~has_edge(Gr, p[1], p[2]) THEN Inf
    ELSE NumAdd(edge_cost(Gr, p[1], p[2]), TravelTime(Gr, Tail(p)))

AfterInitOrBlock == mode = "dstar" /\ calls.last[1] \in {"init", "block"}

AfterBlock == mode = "dstar" /\ calls.last[1] = "block"

Uses(p, u, v) == \E k \in 1..(Len(p) - 1) : p[k] = u /\ p[k + 1] = v

\* the diamond 0 -> 1 -> 2, 0 -> 3 -> 2 right after block_edge_and_replan(1, 2)
\* on an agent that stands on 0
DiamondBlocked ==
    /\ mode = "dstar"
    /\ G.edges = <<<<0, 1>>, <<1, 2>>, <<0, 3>>, <<3, 2>>>>
    /\ start = 0
    /\ calls = [step |-> 0, block |-> 1, last |-> <<"block", 1, 2>>]

\* C6: after block_edge_and_replan(u, v) path_nodes does not go from u
\* straight to v, unless no route from the current position to the goal
\* avoids that edge; on the diamond, blocking 1 -> 2 leaves the path
\* 0, 3, 2 and a finite g at 0.
C6_AvoidsBlockedEdge ==
    /\ AfterBlock =>
          \/ ~Uses(path_nodes, calls.last[2], calls.last[3])
          \/ ~CanReachWithout(G, start, goal, calls.last[2], calls.last[3])
    /\ DiamondBlocked => (path_nodes = <<0, 3, 2>> /\ g[0] # Inf)

\* C7: after construction and after block_edge_and_replan, g of the current
\* position is finite exactly when the goal is reachable from it.
C7_FiniteIffReachable ==
    AfterInitOrBlock => ((g[start] # Inf) <=> CanReach(G, start, goal))

\* the agent has moved and then block_edge_and_replan raised the cost of an
\* edge that leaves its new position, from which the goal is reachable
C7_Witness ==
    /\ AfterBlock
    /\ calls.step >= 1
    /\ calls.last[2] = start
    /\ has_edge(G, calls.last[2], calls.last[3])
    /\ start # goal
    /\ CanReach(G, start, goal)
    /\ g[start] # Inf

\* C8: after construction and after block_edge_and_replan, when the goal is
\* reachable path_nodes is a path of least total travel_time to the goal and
\* g of the current position is that travel_time, for any heuristic.
C8_ShortestForAnyHeuristic ==
    (AfterInitOrBlock /\ CanReach(G, start, goal)) =>
        /\ path_nodes[1] = start
        /\ path_nodes[Len(path_nodes)] = goal
        /\ TravelTime(G, path_nodes) = ShortestTravelTime(G, start, goal)
        /\ g[start] = ShortestTravelTime(G, start, goal)

\* the heuristic between the ends of an edge never exceeds its travel_time
ConsistentHeuristic ==
    \A e \in EdgeSet(G) :
        ~NumLess(edge_cost(G, e[1], e[2]), Num(heuristic(e[1], e[2])))

\* with such a heuristic the repaired plan is a shortest one
DStar_ShortestWhenConsistent ==
    ConsistentHeuristic => C8_ShortestForAnyHeuristic

-----------------------------------------------------------------------------
(* cbs_plan: independence from earlier calls *)

\* what low_level_search computes on G for a cache key when nothing is cached
UncachedSearch(key) ==
    BfsLoop(G, [name |-> key[1], start |-> key[2], goal |-> key[3]], key[5],
            <<<<key[2], 0>>>>, (<<key[2], 0>> :> None))

\* the path an uncached search gives an agent under a list of constraints
FreshPath(name, constraints) ==
    low_level_search(G, AgentByName(name), constraints, <<>>).path

\* C11: once cbs_plan has started planning, every entry of the cache and every
\* path of every constraint-tree node is what an uncached search on the
\* current graph returns, whatever an earlier call left in the cache.
C11_NoStaleCarryOver ==
    (mode = "cbs" /\ pc # "start") =>
        /\ \A key \in DOMAIN LL_CACHE : LL_CACHE[key] = UncachedSearch(key)
        /\ \A i \in 1..Len(open_heap) : \A name \in DOMAIN open_heap[i].paths :
              open_heap[i].paths[name] = FreshPath(name, open_heap[i].constraints)
        /\ pc = "returned" =>
              \A name \in DOMAIN result :
                  \E key \in DOMAIN LL_CACHE :
                      key[1] = name /\ LL_CACHE[key] = result[name]

\* cbs_plan returned after branching, and the path the first agent has in the
\* cache for no constraints is not the one the earlier call had left there
C11_Witness ==
    /\ mode = "cbs"
    /\ pc = "returned"
    /\ pops >= 2
    /\ LET key == <<agents[1].name, agents[1].start, agents[1].goal, max_t, {}>>
       IN  /\ key \in DOMAIN StaleCache(agents)
           /\ LL_CACHE[key] # StaleCache(agents)[key]

-----------------------------------------------------------------------------
(* astar_shortest_path: the unreachable and the trivial case *)

\* C12: astar_shortest_path returns the empty path with infinite cost exactly
\* when the goal is not reachable from the start along directed edges, and
\* the path [start] with cost 0 when start and goal are the same node.
C12_EmptyIffUnreachable ==
    AStarReturned =>
        /\ (result.path = <<>> /\ result.cost = Infinity) <=> ~CanReach(G, start, goal)
        /\ result.path = <<>> <=> result.cost = Infinity
        /\ start = goal => result = [path |-> <<start>>, cost |-> 0]

\* the search expanded the start and another node and found no way to the goal
C12_Witness ==
    /\ AStarReturned
    /\ ~CanReach(G, start, goal)
    /\ Cardinality(DOMAIN g) >= 3
    /\ result = [path |-> <<>>, cost |-> Infinity]

-----------------------------------------------------------------------------
(* prioritized_plan and cbs_plan: all or nothing *)

\* the names planned before the j-th of priority_order
EarlierNames(j) == {priority_order[i] : i \in 1..(j - 1)}

\* a move from m to n that arrives at time t meets a committed path of names
MeetsCommitted(names, n, m, t) ==
    \E name \in names \cap DOMAIN paths :
        LET p == paths[name]
        IN  /\ t < Len(p)
            /\ p[t + 1] = n
               \/ (t >= 1 /\ p[t] = m /\ p[t + 1] = n)

\* the nodes the j-th agent can stand on at time t, waiting or moving and
\* keeping clear of the paths committed before it
RECURSIVE StandsAt(_, _)
StandsAt(j, t) ==
    IF t = 0 THEN {AgentByName(priority_order[j]).start}
    ELSE {n \in Nodes :
            \E m \in StandsAt(j, t - 1) :
                /\ n = m \/ has_edge(G, m, n)
                /\ ~MeetsCommitted(EarlierNames(j), n, m, t)}

WalkExists(j) ==
    \E t \in 0..max_t : AgentByName(priority_order[j]).goal \in StandsAt(j, t)

FullPlan(ps, names) ==
    /\ DOMAIN ps = names
    /\ \A name \in names : ps[name] # <<>>

-----------------------------------------------------------------------------
(* DStarLite: repair degrades, it does not fail *)

\* C14: every block_edge_and_replan call, whatever steps and blocks came
\* before it, ends with path_nodes a non-empty sequence of at most 2 * |nodes|
\* entries that begins at the agent's current position.
C14_RepairLeavesAPath ==
    AfterBlock =>
        /\ path_nodes # <<>>
        /\ path_nodes[1] = start
        /\ Len(path_nodes) <= 2 * Cardinality(Nodes)

\* the agent has moved, and the one edge every route to the goal needs has
\* been blocked twice in a row
C14_Witness ==
    /\ AfterBlock
    /\ calls.step >= 1
    /\ calls.block = 2
    /\ start # goal
    /\ has_edge(G, calls.last[2], calls.last[3])
    /\ edge_cost(G, calls.last[2], calls.last[3])[2] = 1
    /\ CanReach(G, start, goal)
    /\ ~CanReachWithout(G, start, goal, calls.last[2], calls.last[3])

-----------------------------------------------------------------------------
(* every planner on one graph: who writes to it *)

Init == InitAStar \/ InitPP \/ InitCBS \/ InitDStar

Next == AStarStep \/ PlanNextAgent \/ CBSRoot \/ CBSIterate \/ step
            \/ block_edge_and_replan

Spec == Init /\ [][Next]_vars

\* the step is a block_edge_and_replan(u, v) call on an edge of the graph
BlocksEdge(u, v) ==
    /\ mode = "dstar"
    /\ calls'.block = calls.block + 1
    /\ calls'.last = <<"block", u, v>>
    /\ has_edge(G, u, v)

\* C15: no step of astar_shortest_path, prioritized_plan, cbs_plan or
\* DStarLite.step changes the graph, DStarLite construction leaves every
\* travel_time as build_graph set it, and block_edge_and_replan(u, v) changes
\* nothing but the travel_time of edge (u, v), which it multiplies by 1e6.
C15_GraphReadOnly ==
    /\ [](mode = "dstar" /\ calls.block = 0 =>
            \A e \in EdgeSet(G) : G.travel_time[e] = <<0, 0, 0, 1>>)
    /\ [][/\ pos' = pos
          /\ G'.edges = G.edges
          /\ DOMAIN G'.travel_time = DOMAIN G.travel_time
          /\ \A e \in DOMAIN G.travel_time :
                IF BlocksEdge(e[1], e[2])
                THEN G'.travel_time[e] =
                        <<0, G.travel_time[e][3], G.travel_time[e][4], 0>>
                ELSE G'.travel_time[e] = G.travel_time[e]]_vars

\* an agent that has moved blocked an edge: that edge costs 1e6 and another
\* edge still costs 1
C15_Witness ==
    /\ AfterBlock
    /\ calls.step >= 1
    /\ has_edge(G, calls.last[2], calls.last[3])
    /\ edge_cost(G, calls.last[2], calls.last[3]) = <<0, 0, 1, 0>>
    /\ \E e \in EdgeSet(G) : G.travel_time[e] = <<0, 0, 0, 1>>

-----------------------------------------------------------------------------
(* route_planner.py: build_route_for_vehicle *)

\* A float of the route builder: <<n, d>> is the fraction n / d.  Every time of
\* one route has the denominator sum_distances.
RatAdd(a, b) == <<a[1] + b[1], a[2]>>

\* a clock that is not advanced past a segment
KeepTime(t_cumulative, t_end) == t_cumulative

\* t_cumulative = t_end
AdvanceTime(t_cumulative, t_end) == t_end

\* haversine_distance_m for points on one line
haversine_distance_m(p, q) == Abs(p - q)

\* distances_between_points
distances_between_points(pts) ==
    [i \in 1..(Len(pts) - 1) |-> haversine_distance_m(pts[i], pts[i + 1])]

RECURSIVE SumSeq(_)
SumSeq(sq) == IF sq = <<>> THEN 0 ELSE Head(sq) + SumSeq(Tail(sq))

\* the for loop that builds the segments
Segments(pts, total_distance_m, total_duration_s) ==
    LET dist == distances_between_points(pts)
        sum_distances == IF SumSeq(dist) = 0 THEN 1 ELSE SumSeq(dist)
        F[i \in 0..Len(dist)] ==
            IF i = 0 THEN [segments |-> <<>>, t_cumulative |-> <<0, sum_distances>>]
            ELSE LET seg_distance == <<dist[i] * total_distance_m, sum_distances>>
                     seg_duration == <<dist[i] * total_duration_s, sum_distances>>
                     t_start == F[i - 1].t_cumulative
                     t_end == RatAdd(F[i - 1].t_cumulative, seg_duration)
                 IN  [segments |->
                         Append(F[i - 1].segments,
                                [start |-> pts[i], end |-> pts[i + 1],
                                 distance_m |-> seg_distance,
                                 duration_s |-> seg_duration,
                                 t_start |-> t_start, t_end |-> t_end]),
                      t_cumulative |-> AdvanceTime(F[i - 1].t_cumulative, t_end)]
    IN  F[Len(dist)].segments

InitRoute ==
    /\ mode = "route"
    /\ pc = "run"
    /\ ors_summary \in
          [latlon_points : UNION {[1..k -> 0..MaxPos] : k \in 1..MaxPoints},
           total_distance_m : {0, MaxTotal},
           total_duration_s : {0, 1, MaxTotal}]
    /\ polylines = <<>>
    /\ vehicle_way_nodes = <<>>
    /\ result = <<>>
    /\ G = <<>>
    /\ pos = <<>>
    /\ start = 0
    /\ goal = 0
    /\ open_heap = <<>>
    /\ came_from = <<>>
    /\ g = <<>>
    /\ agents = <<>>
    /\ max_t = 0
    /\ priority_order = <<>>
    /\ pidx = 0
    /\ occupied_nodes = <<>>
    /\ occupied_edges = <<>>
    /\ paths = <<>>
    /\ LL_CACHE = <<>>
    /\ pops = 0
    /\ ll_seen = <<>>
    /\ ll_last = <<>>
    /\ km = 0
    /\ rhs = <<>>
    /\ queue = {}
    /\ path_nodes = <<>>
    /\ calls = <<>>

build_route_for_vehicle ==
    /\ mode = "route"
    /\ pc = "run"
    /\ IF Len(ors_summary.latlon_points) < 2
       THEN pc' = "raised" /\ UNCHANGED result
       ELSE /\ pc' = "returned"
            /\ result' = [segments |-> Segments(ors_summary.latlon_points,
                                                ors_summary.total_distance_m,
                                                ors_summary.total_duration_s),
                          total_distance_m |-> ors_summary.total_distance_m,
                          total_duration_s |-> ors_summary.total_duration_s]
    /\ UNCHANGED <<mode, G, pos, agents, max_t, open_heap, ors_summary>>
    /\ UNCHANGED buildVars
    /\ UNCHANGED astarVars2
    /\ UNCHANGED ppVars
    /\ UNCHANGED cbsVars
    /\ UNCHANGED dstarVars

SpecRoute == InitRoute /\ [][build_route_for_vehicle]_vars

\* C16: in every Route build_route_for_vehicle returns the first segment
\* starts at time 0 and each segment starts when the one before it ends.
C16_SegmentsContiguous ==
    (mode = "route" /\ pc = "returned") =>
        LET segs == result.segments
        IN  /\ segs # <<>>
            /\ segs[1].t_start[1] = 0
            /\ \A i \in 1..(Len(segs) - 1) : segs[i].t_end = segs[i + 1].t_start

\* a route of two segments of positive duration
C16_Witness ==
    /\ mode = "route"
    /\ pc = "returned"
    /\ Len(result.segments) = 2
    /\ \A i \in 1..2 : result.segments[i].duration_s[1] > 0

-----------------------------------------------------------------------------
(* graph_builder.py *)

\* MERGE_EPS_M = 10.0: waypoints this close are one node
MERGE_EPS_M == 10

\* waypoint coordinates in metres along one road
Coordinates == {0, 6, 12, 40}

\* the names of polylines, in the order of polylines.items()
VehicleNames == <<"a", "b">>

haversine_m(p, q) == Abs(p - q)

Max2(a, b) == IF a > b THEN a ELSE b

\* pts = [polyline[0]]; i = step; while i < n - 1: ...; pts.append(polyline[-1])
\* (polyline[i] of the source is polyline[i + 1] here)
RECURSIVE DownsampleLoop(_, _, _, _)
DownsampleLoop(polyline, pts, i, stp) ==
    IF i < Len(polyline) - 1
    THEN DownsampleLoop(polyline, Append(pts, polyline[i + 1]), i + stp, stp)
    ELSE Append(pts, polyline[Len(polyline)])

downsample_polyline(polyline, target_waypoints) ==
    LET n == Len(polyline)
        stp == Max2(1, n \div (target_waypoints - 1))
    IN  IF n <= target_waypoints THEN polyline
        ELSE DownsampleLoop(polyline, <<polyline[1]>>, stp, stp)

\* a builder that never adds an edge from a node to itself
NeedsEdgeUnlessLoop(Gr, u, v) == u # v /\ ~has_edge(Gr, u, v)

\* if not G.has_edge(u, v)
NeedsEdge(Gr, u, v) == ~has_edge(Gr, u, v)

\* find_or_create_node: the first node within MERGE_EPS_M of the point, else
\* a new node; gives the node id and the node_coords list after the call
\* (node id k is entry k + 1 of node_coords)
find_or_create_node(node_coords, x) ==
    LET near == {idx \in 1..Len(node_coords) :
                    haversine_m(x, node_coords[idx]) <= MERGE_EPS_M}
    IN  IF near # {}
        THEN [nid |-> (CHOOSE idx \in near : \A j \in near : idx <= j) - 1,
              node_coords |-> node_coords]
        ELSE [nid |-> Len(node_coords),
              node_coords |-> Append(node_coords, x)]

\* for (lat, lon) in pts: way_nodes.append(find_or_create_node(lat, lon))
WayNodes(node_coords, pts) ==
    LET F[i \in 0..Len(pts)] ==
            IF i = 0 THEN [way_nodes |-> <<>>, node_coords |-> node_coords]
            ELSE LET r == find_or_create_node(F[i - 1].node_coords, pts[i])
                 IN  [way_nodes |-> Append(F[i - 1].way_nodes, r.nid),
                      node_coords |-> r.node_coords]
    IN  F[Len(pts)]

\* for i in range(len(way_nodes) - 1): add the edge (u, v) with travel_time 1.0
Connect(Gr, way_nodes) ==
    LET F[i \in 0..(Len(way_nodes) - 1)] ==
            IF i = 0 THEN Gr
            ELSE LET u == way_nodes[i]
                     v == way_nodes[i + 1]
                 IN  IF NeedsEdge(F[i - 1], u, v)
                     THEN [edges |-> Append(F[i - 1].edges, <<u, v>>),
                           travel_time |->
                               (<<u, v>> :> 1) @@ F[i - 1].travel_time]
                     ELSE F[i - 1]
    IN  F[Len(way_nodes) - 1]

\* the body of build_abstract_graph_from_routes: one polyline after another
BuildGraph(polys, target_waypoints) ==
    LET F[k \in 0..Len(VehicleNames)] ==
            IF k = 0
            THEN [G |-> [edges |-> <<>>, travel_time |-> <<>>],
                  node_coords |-> <<>>,
                  vehicle_way_nodes |-> <<>>]
            ELSE LET veh_name == VehicleNames[k]
                     pts == downsample_polyline(polys[veh_name], target_waypoints)
                     w == WayNodes(F[k - 1].node_coords, pts)
                 IN  IF Len(pts) < 2 THEN F[k - 1]
                     ELSE [G |-> Connect(F[k - 1].G, w.way_nodes),
                           node_coords |-> w.node_coords,
                           vehicle_way_nodes |->
                               (veh_name :> w.way_nodes) @@
                                   F[k - 1].vehicle_way_nodes]
    IN  F[Len(VehicleNames)]

InitBuild ==
    /\ mode = "build"
    /\ pc = "run"
    /\ polylines \in
          [polys : [{VehicleNames[k] : k \in 1..Len(VehicleNames)} ->
                        UNION {[1..n -> Coordinates] : n \in 0..MaxPoints}],
           target_waypoints : {2, MaxPoints}]
    /\ vehicle_way_nodes = <<>>
    /\ ors_summary = <<>>
    /\ result = <<>>
    /\ G = <<>>
    /\ pos = <<>>
    /\ start = 0
    /\ goal = 0
    /\ open_heap = <<>>
    /\ came_from = <<>>
    /\ g = <<>>
    /\ agents = <<>>
    /\ max_t = 0
    /\ priority_order = <<>>
    /\ pidx = 0
    /\ occupied_nodes = <<>>
    /\ occupied_edges = <<>>
    /\ paths = <<>>
    /\ LL_CACHE = <<>>
    /\ pops = 0
    /\ ll_seen = <<>>
    /\ ll_last = <<>>
    /\ km = 0
    /\ rhs = <<>>
    /\ queue = {}
    /\ path_nodes = <<>>
    /\ calls = <<>>

build_abstract_graph_from_routes ==
    /\ mode = "build"
    /\ pc = "run"
    /\ LET b == BuildGraph(polylines.polys, polylines.target_waypoints)
       IN  /\ G' = b.G
           /\ pos' = [n \in 0..(Len(b.node_coords) - 1) |-> b.node_coords[n + 1]]
           /\ vehicle_way_nodes' = b.vehicle_way_nodes
    /\ pc' = "returned"
    /\ UNCHANGED <<mode, result, agents, max_t, open_heap, ors_summary, polylines>>
    /\ UNCHANGED astarVars2
    /\ UNCHANGED ppVars
    /\ UNCHANGED cbsVars
    /\ UNCHANGED dstarVars

SpecBuild == InitBuild /\ [][build_abstract_graph_from_routes]_vars

\* the nodes a walk along edges of Gr reaches from the set S
RECURSIVE ReachedFrom(_, _)
ReachedFrom(Gr, S) ==
    LET T == S \cup {e[2] : e \in {d \in EdgeSet(Gr) : d[1] \in S}}
    IN  IF T = S THEN S ELSE ReachedFrom(Gr, T)

\* C17: after build_abstract_graph_from_routes every edge joins two nodes of
\* the graph and has travel_time 1, every consecutive pair of an agent's
\* waypoint nodes is a directed edge, and so the agent's last waypoint is
\* reachable from its first.
C17_WaypointsAreConnected ==
    (mode = "build" /\ pc = "returned") =>
        /\ \A e \in EdgeSet(G) :
              /\ e[1] \in DOMAIN pos
              /\ e[2] \in DOMAIN pos
              /\ G.travel_time[e] = 1
        /\ \A name \in DOMAIN vehicle_way_nodes :
              LET w == vehicle_way_nodes[name]
              IN  /\ \A i \in 1..(Len(w) - 1) : has_edge(G, w[i], w[i + 1])
                  /\ w[Len(w)] \in ReachedFrom(G, {w[1]})

\* both agents are in the mapping, one of them was downsampled, two of its
\* consecutive waypoints were merged into one node and the agents share a node
C17_Witness ==
    /\ mode = "build"
    /\ pc = "returned"
    /\ DOMAIN vehicle_way_nodes = {"a", "b"}
    /\ Len(vehicle_way_nodes["a"]) < Len(polylines.polys["a"])
    /\ \E i \in 1..(Len(vehicle_way_nodes["b"]) - 1) :
          vehicle_way_nodes["b"][i] = vehicle_way_nodes["b"][i + 1]
    /\ \E i \in 1..Len(vehicle_way_nodes["a"]) :
          \E j \in 1..Len(vehicle_way_nodes["b"]) :
              vehicle_way_nodes["a"][i] = vehicle_way_nodes["b"][j]

-----------------------------------------------------------------------------
(* cbs.py: detect_first_conflict called on a mapping of its own *)

\* the nodes the paths of such a mapping visit
PathNodes == {0, 1, 2}

PathChoices == UNION {[1..n -> PathNodes] : n \in 1..MaxPathLen}

\* the mappings: the items (name, path) of a dict in insertion order, no name
\* twice, no path empty
PathItems ==
    {its \in UNION {[1..k -> [name : {"a", "b", "c"}, path : PathChoices]] :
                       k \in 0..3} :
        \A i \in 1..Len(its), j \in 1..Len(its) :
            i # j => its[i].name # its[j].name}

\* list(paths.keys())
KeysOf(its) == [i \in 1..Len(its) |-> its[i].name]

\* paths[name]
AsDict(its) ==
    [name \in {its[i].name : i \in 1..Len(its)} |->
        its[CHOOSE i \in 1..Len(its) : its[i].name = name].path]

InitDetect ==
    /\ mode = "detect"
    /\ pc = "run"
    /\ paths \in PathItems
    /\ polylines = <<>>
    /\ vehicle_way_nodes = <<>>
    /\ ors_summary = <<>>
    /\ result = <<>>
    /\ G = <<>>
    /\ pos = <<>>
    /\ start = 0
    /\ goal = 0
    /\ open_heap = <<>>
    /\ came_from = <<>>
    /\ g = <<>>
    /\ agents = <<>>
    /\ max_t = 0
    /\ priority_order = <<>>
    /\ pidx = 0
    /\ occupied_nodes = <<>>
    /\ occupied_edges = <<>>
    /\ LL_CACHE = <<>>
    /\ pops = 0
    /\ ll_seen = <<>>
    /\ ll_last = <<>>
    /\ km = 0
    /\ rhs = <<>>
    /\ queue = {}
    /\ path_nodes = <<>>
    /\ calls = <<>>

DetectCall ==
    /\ mode = "detect"
    /\ pc = "run"
    /\ result' = detect_first_conflict(AsDict(paths), KeysOf(paths))
    /\ pc' = "returned"
    /\ UNCHANGED <<mode, G, pos, agents, max_t, open_heap, ors_summary>>
    /\ UNCHANGED buildVars
    /\ UNCHANGED astarVars2
    /\ UNCHANGED ppVars
    /\ UNCHANGED cbsVars
    /\ UNCHANGED dstarVars

SpecDetect == InitDetect /\ [][DetectCall]_vars

\* agents i and j of the mapping are on one node at time t
Coincide(its, i, j, t) == Occupies(its[i].path, t) = Occupies(its[j].path, t)

\* every time step at which some path still moves, and some after
DetectTimes == 0..(MaxPathLen + 1)

\* C18: detect_first_conflict returns None exactly when no two agents of the
\* mapping coincide at any time step, paths padded with their last node;
\* otherwise it returns the smallest such time, at that time the first pair
\* (i, j), i < j, in insertion order, and the node the two occupy then.
C18_FirstConflict ==
    (mode = "detect" /\ pc = "returned") =>
        LET n == Len(paths)
            clash == \E i \in 1..n, j \in 1..n, t \in DetectTimes :
                        i < j /\ Coincide(paths, i, j, t)
        IN  /\ (result = NoConflict) <=> ~clash
            /\ clash =>
                  \E i \in 1..n, j \in 1..n :
                      /\ i < j
                      /\ result.a1 = paths[i].name
                      /\ result.a2 = paths[j].name
                      /\ result.time \in DetectTimes
                      /\ Coincide(paths, i, j, result.time)
                      /\ result.node = Occupies(paths[i].path, result.time)
                      /\ \A k \in 1..n, l \in 1..n, t \in DetectTimes :
                            (k < l /\ Coincide(paths, k, l, t)) =>
                                \/ result.time < t
                                \/ /\ result.time = t
                                   /\ (i < k \/ (i = k /\ j <= l))

\* three agents: the first pair in insertion order collides only late, where
\* the shorter path has ended, and a later pair collides before that
C18_Witness ==
    /\ mode = "detect"
    /\ pc = "returned"
    /\ Len(paths) = 3
    /\ result.time = 0
    /\ result.a1 = paths[2].name
    /\ result.a2 = paths[3].name
    /\ Len(paths[1].path) # Len(paths[2].path)
    /\ Coincide(paths, 1, 2, 1)
    /\ paths[1].name = "c"

-----------------------------------------------------------------------------
(* cbs.py: one low_level_search call on an empty cache *)

\* the constraints a caller's list is drawn from: on the start at time 0, on
\* the way and on the goal at later times, and one of another agent
SearchConstraintChoices ==
    {Constraint("a", 0, 0), Constraint("a", 3, 0), Constraint("a", 1, 1),
     Constraint("a", 3, 1), Constraint("a", 1, 2), Constraint("a", 2, 2),
     Constraint("a", 2, 3), Constraint("b", 1, 1)}

SearchConstraintLists ==
    UNION {[1..k -> SearchConstraintChoices] : k \in 0..MaxConstraints}

InitSearch ==
    /\ mode = "search"
    /\ pc = "run"
    /\ G \in Graphs({1, 2, 3, 4, 6}, {1})
    /\ pos = [n \in Nodes |-> 0]
    /\ agents \in {<<Agent(1, 0, 2)>>, <<Agent(1, 3, 2)>>, <<Agent(1, 0, 0)>>}
    /\ max_t \in {1, MaxT}
    /\ LL_CACHE = <<>>
    /\ ll_seen = <<>>
    /\ ll_last = <<>>
    /\ polylines = <<>>
    /\ vehicle_way_nodes = <<>>
    /\ ors_summary = <<>>
    /\ result = <<>>
    /\ start = 0
    /\ goal = 0
    /\ open_heap = <<>>
    /\ came_from = <<>>
    /\ g = <<>>
    /\ priority_order = <<>>
    /\ pidx = 0
    /\ occupied_nodes = <<>>
    /\ occupied_edges = <<>>
    /\ paths = <<>>
    /\ pops = 0
    /\ km = 0
    /\ rhs = <<>>
    /\ queue = {}
    /\ path_nodes = <<>>
    /\ calls = <<>>

\* a caller calls low_level_search(G, agent, constraints, max_t) once
SearchCall ==
    /\ mode = "search"
    /\ pc = "run"
    /\ \E constraints \in SearchConstraintLists :
          LET agent == agents[1]
              r == low_level_search(G, agent, constraints, LL_CACHE)
          IN  /\ LL_CACHE' = r.cache
              /\ ll_last' = [own |-> OwnConstraints(agent.name, constraints),
                             constraints |-> constraints, path |-> r.path]
    /\ pc' = "returned"
    /\ UNCHANGED <<mode, G, pos, agents, max_t, result, pops, open_heap, ll_seen>>
    /\ UNCHANGED astarVars2
    /\ UNCHANGED ppVars
    /\ UNCHANGED dstarVars
    /\ UNCHANGED <<ors_summary, polylines, vehicle_way_nodes>>

SpecSearch == InitSearch /\ [][SearchCall]_vars

SearchReturned == mode = "search" /\ pc = "returned"

\* C19: a non-empty path low_level_search returns never has the agent on a
\* constrained node at its constrained time, the start state at time 0
\* included.
C19_ObeysEveryConstraint ==
    (SearchReturned /\ ll_last.path # <<>>) =>
        \A i \in 1..Len(ll_last.constraints) :
            LET c == ll_last.constraints[i]
            IN  (c.agent = agents[1].name /\ 0 <= c.time /\ c.time < Len(ll_last.path))
                    => ll_last.path[c.time + 1] # c.node

\* what the search does keep: the constraints at times 1 and later
Search_ObeysLaterConstraints ==
    (SearchReturned /\ ll_last.path # <<>>) =>
        \A i \in 1..Len(ll_last.constraints) :
            LET c == ll_last.constraints[i]
            IN  (c.agent = agents[1].name /\ 1 <= c.time /\ c.time < Len(ll_last.path))
                    => ll_last.path[c.time + 1] # c.node

\* the nodes the agent can stand on at time t after waiting or moving along
\* edges, clear of its constrained (node, time) pairs at times 1 and later
RECURSIVE SearchStandsAt(_)
SearchStandsAt(t) ==
    IF t = 0 THEN {agents[1].start}
    ELSE {n \in Nodes :
            /\ <<n, t>> \notin ll_last.own
            /\ \E m \in SearchStandsAt(t - 1) : n = m \/ has_edge(G, m, n)}

\* the arrival times within max_t of such walks
ArrivalTimes == {t \in 0..max_t : agents[1].goal \in SearchStandsAt(t)}

\* p is such a walk: from the start to the goal, waiting or moving
IsWalk(p) ==
    /\ p[1] = agents[1].start
    /\ p[Len(p)] = agents[1].goal
    /\ \A k \in 1..(Len(p) - 1) : p[k + 1] = p[k] \/ has_edge(G, p[k], p[k + 1])
    /\ \A k \in 2..Len(p) : <<p[k], k - 1>> \notin ll_last.own

\* C20: low_level_search returns a walk of fewest steps among the
\* wait-or-move walks from the start to the goal that avoid the agent's
\* constrained (node, time) pairs at times 1 and later and arrive by max_t, so
\* one of at most max_t + 1 entries; it returns the empty path exactly when
\* there is no such walk.
C20_FewestSteps ==
    SearchReturned =>
        /\ (ll_last.path = <<>>) <=> (ArrivalTimes = {})
        /\ ll_last.path # <<>> =>
              /\ IsWalk(ll_last.path)
              /\ Len(ll_last.path) <= max_t + 1
              /\ \A t \in ArrivalTimes : Len(ll_last.path) - 1 <= t

\* the fewest-step walk has to wait for a constraint to pass and arrives at
\* the horizon
C20_Witness ==
    /\ SearchReturned
    /\ ll_last.path # <<>>
    /\ Len(ll_last.path) = max_t + 1
    /\ max_t = MaxT
    /\ \E k \in 1..(Len(ll_last.path) - 1) : ll_last.path[k] = ll_last.path[k + 1]
    /\ ll_last.own # {}

-----------------------------------------------------------------------------
(* cbs_plan: the children of a constraint-tree node *)

\* how often the node x is in the heap
CountIn(heap, x) == Cardinality({i \in 1..Len(heap) : heap[i] = x})

HeapNodes(heap) == {heap[i] : i \in 1..Len(heap)}

\* an iteration of the while loop that found a conflict in the node it popped
BranchingStep ==
    /\ mode = "cbs"
    /\ pc = "run"
    /\ pc' = "run"
    /\ pops' = pops + 1

\* x is a child of parent for the conflict: the parent's constraints and one
\* more on an offender, the other agents' paths kept, the offender's not empty
IsChildOf(x, parent, conflict) ==
    \E offender \in {conflict.a1, conflict.a2} :
        /\ x.constraints =
              Append(parent.constraints,
                     [agent |-> offender, node |-> conflict.node,
                      time |-> conflict.time])
        /\ DOMAIN x.paths = DOMAIN parent.paths
        /\ \A name \in DOMAIN parent.paths \ {offender} :
              x.paths[name] = parent.paths[name]
        /\ x.paths[offender] # <<>>

\* C21: every child node cbs_plan creates has exactly its parent's
\* constraints plus the one new constraint (offender, conflict node, conflict
\* time) and the parent's path for every other agent, is enqueued only with a
\* non-empty path for the offender, and the nodes already in the heap stay as
\* they were.
C21_ChildrenExtendParent ==
    [][BranchingStep =>
          LET parent == open_heap[1]
              conflict == detect_first_conflict(parent.paths, NamesOf(agents))
              kept(x) == CountIn(open_heap, x) - (IF x = parent THEN 1 ELSE 0)
          IN  /\ conflict # NoConflict
              /\ Len(open_heap') <= Len(open_heap) + 1
              /\ \A x \in HeapNodes(open_heap) : CountIn(open_heap', x) >= kept(x)
              /\ \A x \in HeapNodes(open_heap') :
                    CountIn(open_heap', x) > kept(x) =>
                        /\ CountIn(open_heap', x) = kept(x) + 1
                        /\ IsChildOf(x, parent, conflict)
      ]_vars

\* after two branchings a grandchild of the root is in the heap and only one
\* child of some node was enqueued, the other offender having no path
C21_Witness ==
    /\ mode = "cbs"
    /\ pc = "run"
    /\ pops = 2
    /\ Len(open_heap) = 2
    /\ \E i \in 1..Len(open_heap) : Len(open_heap[i].constraints) = 2

\* the cost of the root node: the lengths of the unconstrained paths
RootCost ==
    LET F[i \in 0..Len(agents)] ==
            IF i = 0 THEN 0
            ELSE F[i - 1] + Len(LL_CACHE[<<agents[i].name, agents[i].start,
                                           agents[i].goal, max_t, {}>>])
    IN  F[Len(agents)]

\* sum(len(p) for p in paths.values()), counted over the mapping itself
RECURSIVE TotalLength(_, _)
TotalLength(ps, names) ==
    IF names = {} THEN 0
    ELSE LET name == CHOOSE n \in names : TRUE
         IN  Len(ps[name]) + TotalLength(ps, names \ {name})

\* C22: every child cbs_plan enqueues costs, as the sum of its path lengths,
\* at least what its parent costs, and the costs of the nodes popped from the
\* open heap never decrease over the run.
C22_CostsNeverDecrease ==
    [][(mode = "cbs" /\ pc = "run" /\ pops' = pops + 1) =>
          LET parent == open_heap[1]
              kept(x) == CountIn(open_heap, x) - (IF x = parent THEN 1 ELSE 0)
          IN  /\ \A i \in 1..Len(open_heap) : parent.cost <= open_heap[i].cost
              /\ \A x \in HeapNodes(open_heap') :
                    /\ x.cost = TotalLength(x.paths, DOMAIN x.paths)
                    /\ CountIn(open_heap', x) > kept(x) => x.cost >= parent.cost
              /\ (pc' = "run" /\ open_heap' # <<>>) =>
                    open_heap'[1].cost >= parent.cost
      ]_vars

\* after two pops the next node to pop costs more than the root did and a
\* costlier node waits behind it
C22_Witness ==
    /\ mode = "cbs"
    /\ pc = "run"
    /\ pops = 2
    /\ Len(open_heap) >= 2
    /\ open_heap[1].cost > RootCost
    /\ \E i \in 2..Len(open_heap) : open_heap[i].cost > open_heap[1].cost

-----------------------------------------------------------------------------
(* prioritized_plan: committed paths and reservations *)

\* prioritized_plan run afresh with the first k names of priority_order as
\* its order: the paths it has when it returns or raises
PlanOfFirst(k) ==
    LET F[i \in 0..k] ==
            IF i = 0
            THEN [ok |-> TRUE, paths |-> <<>>, occN |-> <<>>, occE |-> <<>>]
            ELSE LET q == F[i - 1]
                     name == priority_order[i]
                     path == time_expanded_astar(G, AgentByName(name),
                                                 q.occN, q.occE)
                 IN  IF ~q.ok \/ path = <<>> THEN [q EXCEPT !.ok = FALSE]
                     ELSE [ok |-> TRUE,
                           paths |-> (name :> path) @@ q.paths,
                           occN |-> ReserveNodes(q.occN, path),
                           occE |-> ReserveEdges(q.occE, path)]
    IN  F[k]

\* every reservation of the table occ is in the table occ2
ReservationsKept(occ, occ2) ==
    \A key \in DOMAIN occ : key \in DOMAIN occ2 /\ occ[key] \subseteq occ2[key]

\* C23: during prioritized_plan a committed path is never changed and no
\* (node, time) or (edge, time) reservation is ever removed, and the path of
\* the k-th agent in priority order is the path it gets when prioritized_plan
\* is run with the first k agents only.
C23_CommittedPathsAreFinal ==
    /\ [](mode = "pp" =>
            \A k \in 1..Len(priority_order) :
                priority_order[k] \in DOMAIN paths =>
                    LET run == PlanOfFirst(k)
                    IN  /\ run.ok
                        /\ run.paths[priority_order[k]] = paths[priority_order[k]])
    /\ [][mode = "pp" =>
            /\ \A name \in DOMAIN paths :
                  name \in DOMAIN paths' /\ paths'[name] = paths[name]
            /\ ReservationsKept(occupied_nodes, occupied_nodes')
            /\ ReservationsKept(occupied_edges, occupied_edges')]_vars

\* three agents are committed; the last of them had to wait for a reserved
\* node and crosses a node an earlier agent holds at another time
C23_Witness ==
    /\ mode = "pp"
    /\ pc = "returned"
    /\ Len(priority_order) = 3
    /\ LET p == paths[priority_order[3]]
       IN  /\ \E i \in 1..(Len(p) - 1) : p[i] = p[i + 1]
           /\ \E i \in 1..Len(p) : Cardinality(occupied_nodes[p[i]]) >= 2

-----------------------------------------------------------------------------
(* DStarLite: the invariants of g, rhs and the queue *)

\* travel_time(u, v) + g(v) for the successors v of u under the current costs
LookaheadCosts(u) ==
    {NumAdd(G.travel_time[e], g[e[2]]) : e \in {d \in EdgeSet(G) : d[1] = u}}

\* C24: after DStarLite construction and after every step or
\* block_edge_and_replan call rhs(goal) = 0 and, for every other node u,
\* rhs(u) is the minimum over u's successors v of travel_time(u, v) + g(v)
\* under the current edge costs, infinity when u has no successor.
C24_RhsIsOneStepLookahead ==
    mode = "dstar" =>
        /\ rhs[goal] = <<0, 0, 0, 0>>
        /\ \A u \in Nodes \ {goal} :
              /\ rhs[u] \in LookaheadCosts(u) \cup {<<1, 0, 0, 0>>}
              /\ \A c \in LookaheadCosts(u) : ~NumLess(c, rhs[u])

\* the agent has moved and an edge was blocked: the rhs of a node with two
\* successors counts a blocked edge, the rhs of another node is unit costs
\* only, and a node without successors has rhs infinity
C24_Witness ==
    /\ AfterBlock
    /\ calls.step >= 1
    /\ \E u \in Nodes \ {goal} :
          /\ rhs[u][1] = 0 /\ rhs[u][3] > 0
          /\ Cardinality(LookaheadCosts(u)) >= 2
    /\ \E u \in Nodes \ {goal} : rhs[u][1] = 0 /\ rhs[u][3] = 0 /\ rhs[u][4] > 0
    /\ \E u \in Nodes \ {goal} : LookaheadCosts(u) = {} /\ rhs[u] = <<1, 0, 0, 0>>

\* the entries of the queue for node u
EntriesOf(u) == {item \in queue : item[2] = u}

\* C25: after DStarLite construction and after every step or
\* block_edge_and_replan call the priority queue holds at most one entry per
\* node, and a node has an entry exactly when it is inconsistent, g # rhs.
C25_QueueHoldsTheInconsistent ==
    mode = "dstar" =>
        \A u \in Nodes :
            /\ Cardinality(EntriesOf(u)) <= 1
            /\ (EntriesOf(u) # {}) <=> (g[u] # rhs[u])

\* after a step and a blocking two nodes wait in the queue while the others
\* are consistent, one of them with a finite g
C25_Witness ==
    /\ AfterBlock
    /\ calls.step >= 1
    /\ Cardinality(queue) = 2
    /\ \E u \in Nodes : g[u] = rhs[u] /\ g[u][1] = 0 /\ u # goal
    /\ \E item \in queue : g[item[2]][1] = 0

-----------------------------------------------------------------------------
(* DStarLite.step and km *)

\* the transition is a call of step
IsStep == mode = "dstar" /\ calls'.step = calls.step + 1

\* travel_time(start, v) + g(v) before the transition
StepCost(v) == NumAdd(G.travel_time[<<start, v>>], g[v])

SuccessorsOfStart == {e[2] : e \in {d \in EdgeSet(G) : d[1] = start}}

\* C26: step at the goal changes nothing; otherwise, when some successor s of
\* the position has finite travel_time + g(s), step moves the agent along an
\* edge to a successor that minimises that sum and adds to km the heuristic
\* between the old and the new position, and when there is none it leaves the
\* position and km as they are; km never decreases and only step changes it.
C26_StepMovesGreedily ==
    [][mode = "dstar" =>
          /\ km' >= km
          /\ ~IsStep => km' = km
          /\ IsStep =>
                IF start = goal
                THEN UNCHANGED <<start, km, g, rhs, queue, path_nodes, G>>
                ELSE IF \E v \in SuccessorsOfStart : StepCost(v) # <<1, 0, 0, 0>>
                THEN /\ start' \in SuccessorsOfStart
                     /\ StepCost(start') # <<1, 0, 0, 0>>
                     /\ \A v \in SuccessorsOfStart :
                           ~NumLess(StepCost(v), StepCost(start'))
                     /\ km' = km + Abs(pos[start] - pos[start'])
                ELSE start' = start /\ km' = km
      ]_vars

\* after a blocking the agent stepped a second time, km counts both moves and
\* the agent is not yet at the goal
C26_Witness ==
    /\ mode = "dstar"
    /\ calls.last = <<"step">>
    /\ calls.step = 2
    /\ calls.block >= 1
    /\ km > 1
    /\ start # goal

-----------------------------------------------------------------------------
(* DStarLite: the extracted path *)

\* travel_time(n, v) + g(v) is finite for some successor v of n
HasFiniteSuccessor(n) ==
    \E e \in EdgeSet(G) :
        e[1] = n /\ NumAdd(G.travel_time[e], g[e[2]]) # <<1, 0, 0, 0>>

\* C27: after every DStarLite operation path_nodes starts at the current
\* position, every consecutive pair of it is a directed edge, it has at most
\* 2 x |nodes| entries, and it ends before the goal only when that bound is
\* reached or its last node has no successor with finite travel_time + g.
C27_PathFollowsEdges ==
    mode = "dstar" =>
        /\ path_nodes # <<>>
        /\ path_nodes[1] = start
        /\ \A i \in 1..(Len(path_nodes) - 1) :
              has_edge(G, path_nodes[i], path_nodes[i + 1])
        /\ Len(path_nodes) <= 2 * Cardinality(Nodes)
        /\ path_nodes[Len(path_nodes)] # goal =>
              \/ Len(path_nodes) = 2 * Cardinality(Nodes)
              \/ ~HasFiniteSuccessor(path_nodes[Len(path_nodes)])

\* after a blocking the walk circles between two nodes with stale g values
\* and is cut at the bound, on a node that still has a finite successor
C27_Witness ==
    /\ AfterBlock
    /\ path_nodes[1] = start
    /\ Len(path_nodes) = 2 * Cardinality(Nodes)
    /\ path_nodes[Len(path_nodes)] # goal
    /\ HasFiniteSuccessor(path_nodes[Len(path_nodes)])

-----------------------------------------------------------------------------
(* block_edge_and_replan: which nodes a repair touches *)

\* the transition is a call block_edge_and_replan(u, v)
IsBlock == mode = "dstar" /\ calls'.block = calls.block + 1

\* the nodes with a directed path to a node of S, those of S included
Upstream(S) == ReachingWithout(G, S, -1, -1)

\* the nodes that are inconsistent, g # rhs
Inconsistent == {n \in Nodes : g[n] # rhs[n]}

\* g and rhs of the nodes outside the set S are left as they were
UntouchedOutside(S) ==
    \A x \in Nodes \ S : g'[x] = g[x] /\ rhs'[x] = rhs[x]

\* C28 as stated: block_edge_and_replan(u, v) leaves g and rhs of every node
\* that is neither u nor has a directed path to u as they were, and of every
\* node when the edge (u, v) does not exist.
C28_TouchesOnlyUpstreamOfU ==
    [][IsBlock =>
          IF has_edge(G, calls'.last[2], calls'.last[3])
          THEN UntouchedOutside(Upstream({calls'.last[2]}))
          ELSE g' = g /\ rhs' = rhs
      ]_vars

\* C28, amended: block_edge_and_replan(u, v) leaves g and rhs as they were
\* for every node that has no directed path to u or to a node that was
\* inconsistent before the call and is none of those nodes itself, and for
\* every node when the edge (u, v) does not exist.
C28_TouchesOnlyUpstreamOfUAndQueued ==
    [][IsBlock =>
          IF has_edge(G, calls'.last[2], calls'.last[3])
          THEN UntouchedOutside(Upstream({calls'.last[2]} \cup Inconsistent))
          ELSE g' = g /\ rhs' = rhs
      ]_vars

\* a second blocking changed g of a node and left a node alone that has no
\* path to u or to a node that was waiting in the queue
C28_Witness ==
    /\ AfterBlock
    /\ calls.block = 2
    /\ has_edge(G, calls.last[2], calls.last[3])
    /\ \E x \in Nodes \ {goal} : g[x][3] > 0
    /\ Upstream({calls.last[2]} \cup Inconsistent) # Nodes
    /\ Inconsistent # {}

====
